---- MODULE Spec2Model ----
(***************************************************************************)
(* Ledger reconciliation of Project_ocho_uno.py (Streamlit + Supabase).    *)
(*                                                                         *)
(* Numbers.  The program computes in floating point; the model computes    *)
(* in fixed point.  Weights in kg, unit counts and unit prices are whole   *)
(* numbers; pounds and every amount of money are counted in units of       *)
(* 10^-5 (so LBS_PER_KG = 2.20462 is 220462 and 176.01 is 17601000).       *)
(* Dates are day numbers: 0 is 1900-01-01, the anchor row's date.          *)
(* Strings that the program sorts or parses (the identifier N) are         *)
(* sequences of decimal digits.                                            *)
(***************************************************************************)
EXTENDS Integers, Sequences, FiniteSets, TLC

VARIABLES
    data,        \* st.session_state.data   : transaction rows (anchor + operational)
    df,          \* st.session_state.df     : deposit records
    notas,       \* st.session_state.notas  : debit notes
    loaded,      \* "data", "df", "notas" are in st.session_state
    flags,       \* the mutation flags of st.session_state that are True
    db_data,     \* Supabase table "proveedores"
    db_df,       \* Supabase table "depositos"
    db_notas,    \* Supabase table "notas_debito"
    faults,      \* failures the Supabase connection may still produce
    pc,          \* position in the script run: "start", "ui", "tables", "end"
    call,        \* the handler invoked in this script run and the row it was given
    assigned,    \* history: the highest N a transaction row was ever given
    other,       \* st.session_state of a second browser session: its "data", once loaded
    outcome      \* what the handler reported: "none", "success", "error"

vars == <<data, df, notas, loaded, flags, db_data, db_df, db_notas, faults, pc, call, outcome,
          assigned, other>>

----------------------------------------------------------------------------
(* Program constants *)

INITIAL_ACCUMULATED_BALANCE == 17601000

LBS_PER_KG == 220462

\* datetime(1900, 1, 1).date()
ANCHOR_DATE == 0

\* pd.NaT: what pd.to_datetime(errors="coerce") gives for a missing or unparseable date
NaT == -1

\* NaN / None in a numeric column: what pd.to_numeric(errors='coerce') gives
\* for a missing or malformed number
NaN == -1000000000

\* None in a text column
NoneStr == "None"

BALANCE_INICIAL == "BALANCE_INICIAL"

PRODUCT_NAME == "Pollo"

PROVEEDORES == {"LIRIS SA", "Gallina 1"}

AGENCIAS == {"Cajero Automatico Pichincha", "Banco Pichincha"}

\* "Cajero" in agencia
ContainsCajero(agencia) == agencia \in {"Cajero Automatico Pichincha"}

FLAGS == {"deposit_added", "deposit_deleted", "record_added", "record_deleted",
          "data_imported", "debit_note_added", "debit_note_deleted",
          "record_edited", "deposit_edited", "debit_note_edited"}

----------------------------------------------------------------------------
(* Strings of digits: formatting, parsing, comparison *)

RECURSIVE Digits(_)
\* str(n) for n >= 0
Digits(n) == IF n < 10 THEN <<n>> ELSE Append(Digits(n \div 10), n % 10)

\* f"{n:02}"
Fmt02(n) == IF n < 10 THEN <<0, n>> ELSE Digits(n)

RECURSIVE ParseDigits(_)
\* int(s) / pd.to_numeric(s) of a string of digits
ParseDigits(s) ==
    IF Len(s) = 0 THEN 0
    ELSE 10 * ParseDigits(SubSeq(s, 1, Len(s) - 1)) + s[Len(s)]

RECURSIVE StrLess(_, _)
\* a < b for Python strings (lexicographic, a proper prefix is smaller)
StrLess(a, b) ==
    IF Len(b) = 0 THEN FALSE
    ELSE IF Len(a) = 0 THEN TRUE
    ELSE IF a[1] # b[1] THEN a[1] < b[1]
    ELSE StrLess(Tail(a), Tail(b))

----------------------------------------------------------------------------
(* Helpers on sequences *)

RECURSIVE SeqSum(_)
SeqSum(s) == IF Len(s) = 0 THEN 0 ELSE s[1] + SeqSum(Tail(s))

\* df.drop(index=i).reset_index(drop=True)
DropIndex(s, i) == [j \in 1..(Len(s) - 1) |-> IF j < i THEN s[j] ELSE s[j + 1]]

\* pd.to_datetime(x, errors="coerce").dt.date
ToDate(x) == IF x >= 0 THEN x ELSE NaT

\* the value left as it is, nothing coerced
ToNum_unchanged(x) == x

\* pd.to_numeric(x, errors='coerce').fillna(0)
ToNum(x) == IF x = NaN THEN 0 ELSE x

IsAnchor(r) == r.Proveedor = BALANCE_INICIAL

\* df[df["Proveedor"] == "BALANCE_INICIAL"]
AnchorRows(d) == SelectSeq(d, IsAnchor)

\* df[df["Proveedor"] != "BALANCE_INICIAL"]
OpRows(d) == SelectSeq(d, LAMBDA r : ~IsAnchor(r))

----------------------------------------------------------------------------
(* recalculate_accumulated_balances, step by step *)

\* a / b as Python computes it on the fixed-point numbers (b # 0)
Quot(a, b) == IF b > 0 THEN a \div b ELSE (-a) \div (-b)

\* lines 159-161: df_temp["Fecha"] = pd.to_datetime(..., errors="coerce").dt.date
CoerceDates(s) == [i \in 1..Len(s) |-> [s[i] EXCEPT !.Fecha = ToDate(@)]]

\* lines 166-171: pd.to_numeric(...).fillna(0) on the numeric columns
CoerceNumeric(r) ==
    [r EXCEPT !.Cantidad = ToNum(@), !.PesoSalida = ToNum(@), !.PesoEntrada = ToNum(@),
              !.PrecioUnitario = ToNum(@), !.MontoDeposito = ToNum(@), !.Total = ToNum(@),
              !.SaldoDiario = ToNum(@), !.SaldoAcumulado = ToNum(@),
              !.KilosRestantes = ToNum(@), !.LibrasRestantes = ToNum(@),
              !.Promedio = ToNum(@), !.Gavetas = ToNum(@)]

\* the row derivation that leaves the stored total as it is
Derive_total_kept(r) ==
    LET kilos_restantes == r.PesoSalida - r.PesoEntrada
        libras_restantes == kilos_restantes * LBS_PER_KG
        promedio == IF r.Cantidad # 0 THEN Quot(libras_restantes, r.Cantidad) ELSE 0
    IN [r EXCEPT !.KilosRestantes = kilos_restantes,
                 !.LibrasRestantes = libras_restantes,
                 !.Promedio = promedio]

\* lines 337-340, 415-418, 174-177: the row derivation
Derive(r) ==
    LET kilos_restantes == r.PesoSalida - r.PesoEntrada
        libras_restantes == kilos_restantes * LBS_PER_KG
        promedio == IF r.Cantidad # 0 THEN Quot(libras_restantes, r.Cantidad) ELSE 0
        total == libras_restantes * r.PrecioUnitario
    IN [r EXCEPT !.KilosRestantes = kilos_restantes,
                 !.LibrasRestantes = libras_restantes,
                 !.Promedio = promedio,
                 !.Total = total]

\* lines 166-181 on one operational row
DeriveRow(r) == Derive(CoerceNumeric(r))

\* lines 183-186: df_deposits.groupby(["Fecha", "Empresa"])["Monto"].sum()
\* (groupby drops the groups whose key is missing)
deposits_summary(df_deposits) ==
    LET keys == {<<df_deposits[i].Fecha, df_deposits[i].Empresa>> : i \in
                   {j \in 1..Len(df_deposits) : df_deposits[j].Fecha # NaT
                                               /\ df_deposits[j].Empresa # NoneStr}}
    IN [k \in keys |->
          SeqSum([i \in 1..Len(df_deposits) |->
                    IF <<df_deposits[i].Fecha, df_deposits[i].Empresa>> = k
                    THEN ToNum(df_deposits[i].Monto) ELSE 0])]

\* the deposits of the row's date, whatever their counterparty
MontoDepositoOf_by_date(r, df_deposits) ==
    SeqSum([i \in 1..Len(df_deposits) |->
              IF df_deposits[i].Fecha = r.Fecha THEN ToNum(df_deposits[i].Monto) ELSE 0])

\* lines 183-199: the left join of the deposit totals onto one operational row
MontoDepositoOf(r, df_deposits) ==
    IF Len(df_deposits) = 0 THEN 0
    ELSE LET summary == deposits_summary(df_deposits)
             key == <<r.Fecha, r.Proveedor>>
         IN IF key \in DOMAIN summary THEN summary[key] ELSE 0

\* the per-row daily net added to the value the row already holds
JoinDeposits_accumulating(ops, df_deposits) ==
    [i \in 1..Len(ops) |->
        LET monto == MontoDepositoOf(ops[i], df_deposits)
        IN [ops[i] EXCEPT !.MontoDeposito = monto,
                          !.SaldoDiario = @ + monto - ops[i].Total]]

\* the join with how="inner": the rows that no deposit total matches are dropped
JoinDeposits_inner(ops, df_deposits) ==
    LET matched == SelectSeq(ops, LAMBDA r : Len(df_deposits) = 0 \/
                       <<r.Fecha, r.Proveedor>> \in DOMAIN deposits_summary(df_deposits))
    IN [i \in 1..Len(matched) |->
          LET monto == MontoDepositoOf(matched[i], df_deposits)
          IN [matched[i] EXCEPT !.MontoDeposito = monto, !.SaldoDiario = monto - matched[i].Total]]

\* lines 183-201: deposit join and the per-row daily net
JoinDeposits(ops, df_deposits) ==
    [i \in 1..Len(ops) |->
        LET monto == MontoDepositoOf(ops[i], df_deposits)
        IN [ops[i] EXCEPT !.MontoDeposito = monto, !.SaldoDiario = monto - ops[i].Total]]

\* the sum of the column "Descuento posible" in place of "Descuento real"
notes_by_date_possible(df_notes) ==
    LET keys == {df_notes[i].Fecha : i \in {j \in 1..Len(df_notes) : df_notes[j].Fecha # NaT}}
    IN [k \in keys |->
          SeqSum([i \in 1..Len(df_notes) |->
                    IF df_notes[i].Fecha = k THEN ToNum(df_notes[i].DescuentoPosible) ELSE 0])]

\* lines 204-206: df_notes.groupby("Fecha")["Descuento real"].sum()
notes_by_date(df_notes) ==
    LET keys == {df_notes[i].Fecha : i \in {j \in 1..Len(df_notes) : df_notes[j].Fecha # NaT}}
    IN [k \in keys |->
          SeqSum([i \in 1..Len(df_notes) |->
                    IF df_notes[i].Fecha = k THEN ToNum(df_notes[i].DescuentoReal) ELSE 0])]

\* the groups of the rows by date, a group for the rows without a date included
daily_ops_saldo_keep_missing(ops) ==
    LET keys == {ops[i].Fecha : i \in 1..Len(ops)}
    IN [k \in keys |->
          SeqSum([i \in 1..Len(ops) |-> IF ops[i].Fecha = k THEN ops[i].SaldoDiario ELSE 0])]

\* lines 208, 213: df_data_operaciones.groupby("Fecha")["Saldo diario"].sum()
daily_ops_saldo(ops) ==
    LET keys == {ops[i].Fecha : i \in {j \in 1..Len(ops) : ops[j].Fecha # NaT}}
    IN [k \in keys |->
          SeqSum([i \in 1..Len(ops) |-> IF ops[i].Fecha = k THEN ops[i].SaldoDiario ELSE 0])]

\* the discounts joined outward: a date that has debit notes and no rows gets a daily net too
saldo_diario_map_outer(ops, df_notes) ==
    LET daily == daily_ops_saldo(ops)
        notes == notes_by_date(df_notes)
    IN [k \in DOMAIN daily \cup DOMAIN notes |->
          (IF k \in DOMAIN daily THEN daily[k] ELSE 0)
            + (IF k \in DOMAIN notes THEN notes[k] ELSE 0)]

\* lines 203-214: SaldoDiarioAjustado per date
saldo_diario_map(ops, df_notes) ==
    LET daily == daily_ops_saldo(ops)
        notes == notes_by_date(df_notes)
    IN IF Len(df_notes) # 0
       THEN [k \in DOMAIN daily |-> daily[k] + (IF k \in DOMAIN notes THEN notes[k] ELSE 0)]
       ELSE daily

RECURSIVE SortedDates(_)
\* line 216: sort_values("Fecha") of one row per date
SortedDates(S) ==
    IF S = {} THEN <<>>
    ELSE LET m == CHOOSE x \in S : \A y \in S : x <= y
         IN <<m>> \o SortedDates(S \ {m})

\* the series itself, nothing carried forward
CumSum_no_carry(s) == s

RECURSIVE CumSum(_)
\* Series.cumsum()
CumSum(s) ==
    IF Len(s) = 0 THEN <<>>
    ELSE LET p == CumSum(SubSeq(s, 1, Len(s) - 1))
         IN Append(p, (IF Len(p) = 0 THEN 0 ELSE p[Len(p)]) + s[Len(s)])

\* lines 216-220: INITIAL_ACCUMULATED_BALANCE + SaldoDiarioAjustado.cumsum(), per date
saldo_acumulado_map(ops, df_notes) ==
    LET ajustado == saldo_diario_map(ops, df_notes)
        fechas == SortedDates(DOMAIN ajustado)
        cum == CumSum([i \in 1..Len(fechas) |-> ajustado[fechas[i]]])
    IN [k \in DOMAIN ajustado |->
          INITIAL_ACCUMULATED_BALANCE
            + cum[CHOOSE i \in 1..Len(fechas) : fechas[i] = k]]

\* the rows left with their own deposit less total, nothing mapped onto them
Broadcast_per_row(ops, df_notes) == ops

\* lines 222-224: the broadcast of the per-date values onto the rows
Broadcast(ops, df_notes) ==
    LET diario == saldo_diario_map(ops, df_notes)
        acumulado == saldo_acumulado_map(ops, df_notes)
    IN [i \in 1..Len(ops) |->
          [ops[i] EXCEPT
             !.SaldoDiario = IF ops[i].Fecha \in DOMAIN diario
                             THEN diario[ops[i].Fecha] ELSE 0,
             !.SaldoAcumulado = IF ops[i].Fecha \in DOMAIN acumulado
                                THEN acumulado[ops[i].Fecha]
                                ELSE INITIAL_ACCUMULATED_BALANCE]]

\* the fixed fields of the anchor row, the cumulative balance left as it is
FixAnchor_balance_kept(r) ==
    [r EXCEPT !.SaldoDiario = 0,
              !.MontoDeposito = 0,
              !.Total = 0,
              !.N = <<0, 0>>,
              !.Fecha = ANCHOR_DATE]

\* lines 226-232: the fixed fields of the anchor row
FixAnchor(r) ==
    [r EXCEPT !.SaldoAcumulado = INITIAL_ACCUMULATED_BALANCE,
              !.SaldoDiario = 0,
              !.MontoDeposito = 0,
              !.Total = 0,
              !.N = <<0, 0>>,
              !.Fecha = ANCHOR_DATE]

\* the order of sort_values(by=["Fecha", "N"]): dates ascending with NaT last,
\* then N ascending as a string
KeyLess(a, b) ==
    IF a.Fecha # b.Fecha
    THEN IF a.Fecha = NaT THEN FALSE
         ELSE IF b.Fecha = NaT THEN TRUE
         ELSE a.Fecha < b.Fecha
    ELSE StrLess(a.N, b.N)

\* r placed after every row that does not sort after it
InsertRow(sorted, r) ==
    LET later == {i \in 1..Len(sorted) : KeyLess(r, sorted[i])}
        at == IF later = {} THEN Len(sorted) + 1
              ELSE CHOOSE i \in later : \A j \in later : i <= j
    IN SubSeq(sorted, 1, at - 1) \o <<r>> \o SubSeq(sorted, at, Len(sorted))

RECURSIVE SortRows(_)
\* line 240: df_data.sort_values(by=["Fecha", "N"]).reset_index(drop=True) (a stable sort)
SortRows(s) ==
    IF Len(s) = 0 THEN <<>>
    ELSE InsertRow(SortRows(SubSeq(s, 1, Len(s) - 1)), s[Len(s)])

\* lines 155-240: the dataset recalculate_accumulated_balances stores
Recalculated(d, deposits, notes) ==
    LET df_data == CoerceDates(d)
        df_deposits == CoerceDates(deposits)
        df_notes == CoerceDates(notes)
        df_initial_balance == AnchorRows(df_data)
        derived == [i \in 1..Len(OpRows(df_data)) |-> DeriveRow(OpRows(df_data)[i])]
        joined == JoinDeposits(derived, df_deposits)
        df_data_operaciones == Broadcast(joined, df_notes)
        anchors == [i \in 1..Len(df_initial_balance) |-> FixAnchor(df_initial_balance[i])]
    IN SortRows(anchors \o df_data_operaciones)

----------------------------------------------------------------------------
(* Persistence: save_dataframe and load_dataframe *)

\* line 100: value.strftime("%Y-%m-%d"); line 102: a missing value is stored as null
strftime(d) == IF d = NaT THEN <<>> ELSE Digits(d)

\* line 73: pd.to_datetime(df[col], errors="coerce").dt.date
to_datetime(t) == IF Len(t) = 0 THEN NaT ELSE ParseDigits(t)

\* lines 94-102: df.to_dict("records") with dates as text
to_records(s) == [i \in 1..Len(s) |-> [s[i] EXCEPT !.Fecha = strftime(@)]]

\* save_dataframe's ways to end: the insert succeeded; an exception (or no
\* connection) before the delete took effect; an exception in the insert, after the delete
SaveOutcomes == {"ok", "fail", "emptied"}

\* a save that leaves in the table the rows whose N the frame does not hold
Saved_merged(table, s, result) ==
    IF result = "ok"
    THEN SelectSeq(table, LAMBDA r : \A i \in 1..Len(s) : s[i].N # r.N) \o to_records(s)
    ELSE IF result = "emptied" THEN <<>>
    ELSE table

\* lines 85-110: the table after save_dataframe(s, table)
Saved(table, s, result) ==
    IF result = "ok" THEN to_records(s)
    ELSE IF result = "emptied" THEN <<>>
    ELSE table

\* what an outcome of save_dataframe takes from the failures left
Cost(result) == IF result = "ok" THEN 0 ELSE 1

\* lines 55-83: load_dataframe; a failed select gives the empty frame
load_dataframe(table, ok) ==
    IF ~ok THEN <<>>
    ELSE [i \in 1..Len(table) |-> [table[i] EXCEPT !.Fecha = to_datetime(@)]]

----------------------------------------------------------------------------
(* Records *)

\* lines 124-131
fila_inicial_saldo ==
    [N |-> <<0, 0>>, Fecha |-> ANCHOR_DATE, Proveedor |-> BALANCE_INICIAL,
     Producto |-> NoneStr, Cantidad |-> NaN, PesoSalida |-> NaN, PesoEntrada |-> NaN,
     TipoDocumento |-> NoneStr, Gavetas |-> NaN, PrecioUnitario |-> NaN,
     Promedio |-> NaN, KilosRestantes |-> NaN, LibrasRestantes |-> NaN,
     Total |-> 0, MontoDeposito |-> 0, SaldoDiario |-> 0,
     SaldoAcumulado |-> INITIAL_ACCUMULATED_BALANCE]

\* lines 337-362
nueva_fila(enumeracion, fecha, proveedor, cantidad, peso_salida, peso_entrada, tipo_documento, gavetas, precio_unitario) ==
    Derive([N |-> enumeracion, Fecha |-> fecha, Proveedor |-> proveedor,
            Producto |-> PRODUCT_NAME, Cantidad |-> cantidad,
            PesoSalida |-> peso_salida, PesoEntrada |-> peso_entrada,
            TipoDocumento |-> tipo_documento, Gavetas |-> gavetas,
            PrecioUnitario |-> precio_unitario,
            Promedio |-> 0, KilosRestantes |-> 0, LibrasRestantes |-> 0, Total |-> 0,
            MontoDeposito |-> 0, SaldoDiario |-> 0, SaldoAcumulado |-> 0])

Max(S) == CHOOSE x \in S : \A y \in S : y <= x

\* lines 245-253
get_next_n(d) ==
    LET df_filtered == OpRows(d)
    IN IF Len(df_filtered) # 0
       THEN Fmt02(Max({ParseDigits(df_filtered[i].N) : i \in 1..Len(df_filtered)}) + 1)
       ELSE <<0, 1>>

NoCall == [op |-> "none", index |-> 0]

\* a second session that has not run the script yet (lines 118-122: nothing in st.session_state)
NoSession == [loaded |-> FALSE, data |-> <<>>]

----------------------------------------------------------------------------
(* The script run *)

\* lines 113-150: initialize_session_state (the load happens in the session's first run only)
initialize_session_state ==
    /\ pc = "start"
    /\ \E ok1, ok2, ok3 \in BOOLEAN, s1, s2 \in SaveOutcomes :
         LET data0 == IF loaded THEN data ELSE load_dataframe(db_data, ok1)
             absent == ~loaded /\ Len(AnchorRows(data0)) = 0
             data1 == IF absent THEN <<fila_inicial_saldo>> \o data0 ELSE data0
             db1 == IF absent THEN Saved(db_data, data1, s1) ELSE db_data
             df1 == IF loaded THEN df ELSE load_dataframe(db_df, ok2)
             notas1 == IF loaded THEN notas ELSE load_dataframe(db_notas, ok3)
             data2 == Recalculated(data1, df1, notas1)
             failed == Cardinality({i \in {1, 2, 3} : ~<<ok1, ok2, ok3>>[i]})
                         + Cost(s1) + Cost(s2)
         IN /\ loaded => (ok1 /\ ok2 /\ ok3)
            /\ ~absent => s1 = "ok"
            /\ failed <= faults
            /\ faults' = faults - failed
            /\ data' = data2
            /\ df' = df1
            /\ notas' = notas1
            /\ db_data' = Saved(db1, data2, s2)
    /\ loaded' = TRUE
    /\ pc' = "ui"
    /\ call' = NoCall
    /\ outcome' = "none"
    /\ UNCHANGED <<flags, db_df, db_notas, assigned, other>>

\* a script run in which no handler is triggered
render_only ==
    /\ pc = "ui"
    /\ pc' = "end"
    /\ UNCHANGED <<data, df, notas, loaded, other, assigned, flags, db_data, db_df, db_notas, faults,
                   call, outcome>>

\* lines 1246, 908-1015: the tables as the script shows them after the forms
\* of lines 1237-1244 (a handler triggered in one of those forms has run)
render_tables_and_download ==
    /\ pc = "tables"
    /\ pc' = "end"
    /\ UNCHANGED <<data, df, notas, loaded, other, assigned, flags, db_data, db_df, db_notas, faults,
                   call, outcome>>

\* a flag check whose reconciliation also rewrites each debit note's eligible
\* weight and possible discount from the rows of its date
flag_check_notes_refreshed ==
    /\ pc = "end"
    /\ IF flags # {}
       THEN \E s \in SaveOutcomes :
              LET d == Recalculated(data, df, notas)
                  libras(f) == SeqSum([i \in 1..Len(d) |->
                                         IF d[i].Fecha = f /\ d[i].Proveedor # BALANCE_INICIAL
                                         THEN d[i].LibrasRestantes ELSE 0])
              IN /\ Cost(s) <= faults
                 /\ faults' = faults - Cost(s)
                 /\ flags' = {}
                 /\ data' = d
                 /\ db_data' = Saved(db_data, d, s)
                 /\ notas' = [i \in 1..Len(notas) |->
                                [notas[i] EXCEPT
                                   !.LibrasCalculadas = libras(notas[i].Fecha),
                                   !.DescuentoPosible = libras(notas[i].Fecha) * notas[i].Descuento]]
       ELSE UNCHANGED <<flags, data, db_data, faults, notas>>
    /\ pc' = "start"
    /\ call' = NoCall
    /\ outcome' = "none"
    /\ UNCHANGED <<df, loaded, other, assigned, db_df, db_notas>>

\* lines 1255-1263: the flag check that ends the script run
flag_check ==
    /\ pc = "end"
    /\ IF flags # {}
       THEN \E s \in SaveOutcomes :
              LET d == Recalculated(data, df, notas)
              IN /\ Cost(s) <= faults
                 /\ faults' = faults - Cost(s)
                 /\ flags' = {}
                 /\ data' = d
                 /\ db_data' = Saved(db_data, d, s)
       ELSE UNCHANGED <<flags, data, db_data, faults>>
    /\ pc' = "start"
    /\ call' = NoCall
    /\ outcome' = "none"
    /\ UNCHANGED <<df, notas, loaded, other, assigned, db_df, db_notas>>

----------------------------------------------------------------------------
(* Bounds and the inputs the handlers are tried with *)

\* most operational rows, deposits and debit notes a session holds
MaxRows == 1

\* largest identifier N given to a transaction row
MaxN == 2

\* most failures of the Supabase connection in a session
MaxFaults == 1

MaxDeposits == 1

MaxNotes == 1

FECHAS == {1, 2}

\* the counterparty of the rows a session adds
ROW_PROVEEDORES == {"LIRIS SA"}

TIPOS_DOCUMENTO == {"Factura"}

\* <<cantidad, peso_salida, peso_entrada, gavetas, precio_unitario>>: a valid entry,
\* the all-zero entry, a negative count, and inbound weight above outbound weight
SupplierInputs == {<<2, 3, 1, 0, 1>>, <<0, 0, 0, 0, 0>>, <<-1, 3, 1, 0, 1>>, <<2, 1, 3, 0, 1>>}

\* updated_data of an edit of a transaction row: inbound weight above outbound
\* weight; another date with a negative count; another unit price
UpdatedData == {[PesoSalida |-> 1, PesoEntrada |-> 3],
                [Fecha |-> 2, Cantidad |-> -1],
                [PrecioUnitario |-> 2]}

MONTOS == {0, 5000000}

----------------------------------------------------------------------------
(* Transaction rows: add, delete, edit *)

\* add_supplier_record putting the session's dataset back when the save fails
add_supplier_record_rolled_back(fecha, proveedor, cantidad, peso_salida, peso_entrada, tipo_documento, gavetas, precio_unitario) ==
    /\ pc = "ui"
    /\ call' = [op |-> "add_supplier_record", index |-> 0]
    /\ IF \/ \E val \in {cantidad, peso_salida, peso_entrada, precio_unitario, gavetas} : val < 0
          \/ (cantidad = 0 /\ peso_salida = 0 /\ peso_entrada = 0)
          \/ peso_entrada > peso_salida
       THEN /\ outcome' = "error"
            /\ UNCHANGED <<data, db_data, flags, faults, assigned>>
       ELSE /\ Len(OpRows(data)) < MaxRows
            /\ ParseDigits(get_next_n(data)) <= MaxN
            /\ assigned' = Max({assigned, ParseDigits(get_next_n(data))})
            /\ \E s \in SaveOutcomes :
                 LET fila == nueva_fila(get_next_n(data), fecha, proveedor, cantidad,
                                        peso_salida, peso_entrada, tipo_documento,
                                        gavetas, precio_unitario)
                     new == AnchorRows(data) \o Append(OpRows(data), fila)
                 IN /\ Cost(s) <= faults
                    /\ faults' = faults - Cost(s)
                    /\ data' = IF s = "ok" THEN new ELSE data
                    /\ db_data' = Saved(db_data, new, s)
                    /\ flags' = IF s = "ok" THEN flags \cup {"record_added"} ELSE flags
                    /\ outcome' = IF s = "ok" THEN "success" ELSE "error"
    /\ pc' = "tables"
    /\ UNCHANGED <<df, notas, loaded, other, db_df, db_notas>>

\* lines 323-375
add_supplier_record(fecha, proveedor, cantidad, peso_salida, peso_entrada, tipo_documento, gavetas, precio_unitario) ==
    /\ pc = "ui"
    /\ call' = [op |-> "add_supplier_record", index |-> 0]
    /\ IF \/ \E val \in {cantidad, peso_salida, peso_entrada, precio_unitario, gavetas} : val < 0
          \/ (cantidad = 0 /\ peso_salida = 0 /\ peso_entrada = 0)
          \/ peso_entrada > peso_salida
       THEN /\ outcome' = "error"
            /\ UNCHANGED <<data, db_data, flags, faults, assigned>>
       ELSE /\ Len(OpRows(data)) < MaxRows
            /\ ParseDigits(get_next_n(data)) <= MaxN
            /\ assigned' = Max({assigned, ParseDigits(get_next_n(data))})
            /\ \E s \in SaveOutcomes :
                 LET fila == nueva_fila(get_next_n(data), fecha, proveedor, cantidad,
                                        peso_salida, peso_entrada, tipo_documento,
                                        gavetas, precio_unitario)
                     new == AnchorRows(data) \o Append(OpRows(data), fila)
                 IN /\ Cost(s) <= faults
                    /\ faults' = faults - Cost(s)
                    /\ data' = new
                    /\ db_data' = Saved(db_data, new, s)
                    /\ flags' = IF s = "ok" THEN flags \cup {"record_added"} ELSE flags
                    /\ outcome' = IF s = "ok" THEN "success" ELSE "error"
    /\ pc' = "tables"
    /\ UNCHANGED <<df, notas, loaded, other, db_df, db_notas>>

\* delete_record without the check of line 381
delete_record_any_row(index_to_delete) ==
    /\ pc = "ui"
    /\ call' = [op |-> "delete_record", index |-> index_to_delete]
    /\ IF index_to_delete \notin 1..Len(data)
       THEN /\ outcome' = "error"
            /\ UNCHANGED <<data, db_data, flags, faults>>
       ELSE \E s \in SaveOutcomes :
              LET new == DropIndex(data, index_to_delete)
              IN /\ Cost(s) <= faults
                 /\ faults' = faults - Cost(s)
                 /\ data' = new
                 /\ db_data' = Saved(db_data, new, s)
                 /\ flags' = IF s = "ok" THEN flags \cup {"record_deleted"} ELSE flags
                 /\ outcome' = IF s = "ok" THEN "success" ELSE "error"
    /\ pc' = "end"
    /\ UNCHANGED <<df, notas, loaded, other, assigned, db_df, db_notas>>

\* delete_record saving and reporting without dropping the row
delete_record_row_kept(index_to_delete) ==
    /\ pc = "ui"
    /\ call' = [op |-> "delete_record", index |-> index_to_delete]
    /\ IF index_to_delete \notin 1..Len(data)
       THEN /\ outcome' = "error"
            /\ UNCHANGED <<data, db_data, flags, faults>>
       ELSE IF data[index_to_delete].Proveedor = BALANCE_INICIAL
       THEN /\ outcome' = "error"
            /\ UNCHANGED <<data, db_data, flags, faults>>
       ELSE \E s \in SaveOutcomes :
              LET new == data
              IN /\ Cost(s) <= faults
                 /\ faults' = faults - Cost(s)
                 /\ data' = new
                 /\ db_data' = Saved(db_data, new, s)
                 /\ flags' = IF s = "ok" THEN flags \cup {"record_deleted"} ELSE flags
                 /\ outcome' = IF s = "ok" THEN "success" ELSE "error"
    /\ pc' = "end"
    /\ UNCHANGED <<df, notas, loaded, other, assigned, db_df, db_notas>>

\* lines 377-390; an index that is no label of the frame raises KeyError, which is caught
delete_record(index_to_delete) ==
    /\ pc = "ui"
    /\ call' = [op |-> "delete_record", index |-> index_to_delete]
    /\ IF index_to_delete \notin 1..Len(data)
       THEN /\ outcome' = "error"
            /\ UNCHANGED <<data, db_data, flags, faults>>
       ELSE IF data[index_to_delete].Proveedor = BALANCE_INICIAL
       THEN /\ outcome' = "error"
            /\ UNCHANGED <<data, db_data, flags, faults>>
       ELSE \E s \in SaveOutcomes :
              LET new == DropIndex(data, index_to_delete)
              IN /\ Cost(s) <= faults
                 /\ faults' = faults - Cost(s)
                 /\ data' = new
                 /\ db_data' = Saved(db_data, new, s)
                 /\ flags' = IF s = "ok" THEN flags \cup {"record_deleted"} ELSE flags
                 /\ outcome' = IF s = "ok" THEN "success" ELSE "error"
    /\ pc' = "end"
    /\ UNCHANGED <<df, notas, loaded, other, assigned, db_df, db_notas>>

\* lines 400-408: current_df.loc[index_to_edit, key] = value for every key of updated_data
ApplyUpdate(r, updated_data) ==
    [k \in DOMAIN r |-> IF k \in DOMAIN updated_data THEN updated_data[k] ELSE r[k]]

\* lines 392-432
edit_supplier_record(index_to_edit, updated_data) ==
    /\ pc = "ui"
    /\ call' = [op |-> "edit_supplier_record", index |-> index_to_edit]
    /\ IF index_to_edit \notin 1..Len(data)
       THEN /\ outcome' = "error"
            /\ UNCHANGED <<data, db_data, flags, faults>>
       ELSE IF data[index_to_edit].Proveedor = BALANCE_INICIAL
       THEN /\ outcome' = "error"
            /\ UNCHANGED <<data, db_data, flags, faults>>
       ELSE \E s \in SaveOutcomes :
              LET current_df == [data EXCEPT ![index_to_edit] =
                                    Derive(ApplyUpdate(@, updated_data))]
              IN /\ Cost(s) <= faults
                 /\ faults' = faults - Cost(s)
                 /\ data' = current_df
                 /\ db_data' = Saved(db_data, current_df, s)
                 /\ flags' = IF s = "ok" THEN flags \cup {"record_edited"} ELSE flags
                 /\ outcome' = IF s = "ok" THEN "success" ELSE "error"
    /\ pc' = "end"
    /\ UNCHANGED <<df, notas, loaded, other, assigned, db_df, db_notas>>

----------------------------------------------------------------------------
(* Deposits: add, delete, edit *)

\* lines 260-265: the next deposit number
next_deposit_n(df_actual) ==
    IF Len(df_actual) # 0
    THEN Fmt02(Max({ParseDigits(df_actual[i].N) : i \in 1..Len(df_actual)} \cup {0}) + 1)
    ELSE <<0, 1>>

\* line 267, 312, 500
documento_of(agencia) == IF ContainsCajero(agencia) THEN "Deposito" ELSE "Transferencia"

\* lines 255-282
add_deposit_record(fecha_d, empresa, agencia, monto) ==
    \E s \in SaveOutcomes :
      LET nuevo_registro == [Fecha |-> fecha_d, Empresa |-> empresa, Agencia |-> agencia,
                             Monto |-> monto, Documento |-> documento_of(agencia),
                             N |-> next_deposit_n(df)]
          new == Append(df, nuevo_registro)
      IN /\ Cost(s) <= faults
         /\ faults' = faults - Cost(s)
         /\ df' = new
         /\ db_df' = Saved(db_df, new, s)
         /\ flags' = IF s = "ok" THEN flags \cup {"deposit_added"} ELSE flags
         /\ outcome' = IF s = "ok" THEN "success" ELSE "error"

\* lines 646-660: the deposit form, submitted
render_deposit_registration_form(fecha_d, empresa, agencia, monto) ==
    /\ pc = "ui"
    /\ call' = [op |-> "add_deposit_record", index |-> 0]
    /\ IF monto <= 0
       THEN /\ outcome' = "error"
            /\ UNCHANGED <<df, db_df, flags, faults>>
       ELSE /\ Len(df) < MaxDeposits
            /\ add_deposit_record(fecha_d, empresa, agencia, monto)
    /\ pc' = "tables"
    /\ UNCHANGED <<data, notas, loaded, other, assigned, db_data, db_notas>>

\* lines 284-294 (called for a listed deposit, lines 665-676)
delete_deposit_record(index_to_delete) ==
    /\ pc = "ui"
    /\ index_to_delete \in 1..Len(df)
    /\ call' = [op |-> "delete_deposit_record", index |-> index_to_delete]
    /\ \E s \in SaveOutcomes :
         LET new == DropIndex(df, index_to_delete)
         IN /\ Cost(s) <= faults
            /\ faults' = faults - Cost(s)
            /\ df' = new
            /\ db_df' = Saved(db_df, new, s)
            /\ flags' = IF s = "ok" THEN flags \cup {"deposit_deleted"} ELSE flags
            /\ outcome' = IF s = "ok" THEN "success" ELSE "error"
    /\ pc' = "tables"
    /\ UNCHANGED <<data, notas, loaded, other, assigned, db_data, db_notas>>

\* lines 296-321
edit_deposit_record(index_to_edit, updated_data) ==
    \E s \in SaveOutcomes :
      LET current_df == [df EXCEPT ![index_to_edit] =
                            [ApplyUpdate(@, updated_data) EXCEPT
                               !.Documento = documento_of(updated_data.Agencia)]]
      IN /\ Cost(s) <= faults
         /\ faults' = faults - Cost(s)
         /\ df' = current_df
         /\ db_df' = Saved(db_df, current_df, s)
         /\ flags' = IF s = "ok" THEN flags \cup {"deposit_edited"} ELSE flags
         /\ outcome' = IF s = "ok" THEN "success" ELSE "error"

\* lines 682-714: the deposit edit form, submitted for a listed deposit
render_edit_deposit_section(index_to_edit, edited_fecha, edited_empresa, edited_agencia, edited_monto) ==
    /\ pc = "ui"
    /\ index_to_edit \in 1..Len(df)
    /\ call' = [op |-> "edit_deposit_record", index |-> index_to_edit]
    /\ IF edited_monto > 0
       THEN edit_deposit_record(index_to_edit,
                                [Fecha |-> edited_fecha, Empresa |-> edited_empresa,
                                 Agencia |-> edited_agencia, Monto |-> edited_monto])
       ELSE /\ outcome' = "error"
            /\ UNCHANGED <<df, db_df, flags, faults>>
    /\ pc' = "tables"
    /\ UNCHANGED <<data, notas, loaded, other, assigned, db_data, db_notas>>

----------------------------------------------------------------------------
(* Debit notes: add, delete, edit.  Descuento is a rate in hundredths, so   *)
(* Descuento posible = libras * rate is counted in units of 10^-7.          *)

DESCUENTOS == {0, 10}

DESCUENTOS_REALES == {0, 700000}

\* lines 571-577, 626-631: the converted weight of the operational rows of a date
libras_calculadas(d, fecha_nota) ==
    SeqSum([i \in 1..Len(d) |->
              IF d[i].Fecha = fecha_nota /\ d[i].Proveedor # BALANCE_INICIAL
              THEN ToNum(d[i].LibrasRestantes) ELSE 0])

\* lines 569-593
add_debit_note(fecha_nota, descuento, descuento_real) ==
    \E s \in SaveOutcomes :
      LET libras == libras_calculadas(data, fecha_nota)
          nueva_nota == [Fecha |-> fecha_nota, LibrasCalculadas |-> libras,
                         Descuento |-> descuento, DescuentoPosible |-> libras * descuento,
                         DescuentoReal |-> descuento_real]
          new == Append(notas, nueva_nota)
      IN /\ Cost(s) <= faults
         /\ faults' = faults - Cost(s)
         /\ notas' = new
         /\ db_notas' = Saved(db_notas, new, s)
         /\ flags' = IF s = "ok" THEN flags \cup {"debit_note_added"} ELSE flags
         /\ outcome' = IF s = "ok" THEN "success" ELSE "error"

\* lines 750-766: the debit note form, submitted
render_debit_note_form(fecha_nota, descuento, descuento_real) ==
    /\ pc = "ui"
    /\ call' = [op |-> "add_debit_note", index |-> 0]
    /\ IF descuento_real > 0 \/ descuento > 0
       THEN /\ Len(notas) < MaxNotes
            /\ add_debit_note(fecha_nota, descuento, descuento_real)
       ELSE /\ outcome' = "error"
            /\ UNCHANGED <<notas, db_notas, flags, faults>>
    /\ pc' = "tables"
    /\ UNCHANGED <<data, df, loaded, other, assigned, db_data, db_df>>

\* lines 595-605 (called for a listed note, lines 771-782)
delete_debit_note_record(index_to_delete) ==
    /\ pc = "ui"
    /\ index_to_delete \in 1..Len(notas)
    /\ call' = [op |-> "delete_debit_note_record", index |-> index_to_delete]
    /\ \E s \in SaveOutcomes :
         LET new == DropIndex(notas, index_to_delete)
         IN /\ Cost(s) <= faults
            /\ faults' = faults - Cost(s)
            /\ notas' = new
            /\ db_notas' = Saved(db_notas, new, s)
            /\ flags' = IF s = "ok" THEN flags \cup {"debit_note_deleted"} ELSE flags
            /\ outcome' = IF s = "ok" THEN "success" ELSE "error"
    /\ pc' = "end"
    /\ UNCHANGED <<data, df, loaded, other, assigned, db_data, db_df>>

\* lines 607-643
edit_debit_note_record(index_to_edit, updated_data) ==
    \E s \in SaveOutcomes :
      LET edited == ApplyUpdate(notas[index_to_edit], updated_data)
          libras == libras_calculadas(data, edited.Fecha)
          current_df == [notas EXCEPT ![index_to_edit] =
                            [edited EXCEPT !.LibrasCalculadas = libras,
                                           !.DescuentoPosible = libras * edited.Descuento]]
      IN /\ Cost(s) <= faults
         /\ faults' = faults - Cost(s)
         /\ notas' = current_df
         /\ db_notas' = Saved(db_notas, current_df, s)
         /\ flags' = IF s = "ok" THEN flags \cup {"debit_note_edited"} ELSE flags
         /\ outcome' = IF s = "ok" THEN "success" ELSE "error"

\* lines 788-818: the debit note edit form, submitted for a listed note
render_edit_debit_note_section(index_to_edit, edited_fecha_nota, edited_descuento, edited_descuento_real) ==
    /\ pc = "ui"
    /\ index_to_edit \in 1..Len(notas)
    /\ call' = [op |-> "edit_debit_note_record", index |-> index_to_edit]
    /\ IF edited_descuento > 0 \/ edited_descuento_real > 0
       THEN edit_debit_note_record(index_to_edit,
                                   [Fecha |-> edited_fecha_nota,
                                    Descuento |-> edited_descuento,
                                    DescuentoReal |-> edited_descuento_real])
       ELSE /\ outcome' = "error"
            /\ UNCHANGED <<notas, db_notas, flags, faults>>
    /\ pc' = "end"
    /\ UNCHANGED <<data, df, loaded, other, assigned, db_data, db_df>>

----------------------------------------------------------------------------
(* Excel import *)

\* lines 467, 470: the numbers given to imported rows
imported_n(existing, i) ==
    Fmt02(Max({ParseDigits(existing[j].N) : j \in 1..Len(existing)} \cup {0}) + i)

\* lines 453-476: the frame built from the sheet "registro de proveedores"
df_proveedores_importado(sheet, d) ==
    LET dated == SelectSeq(CoerceDates(sheet), LAMBDA r : r.Fecha # NaT)
    IN [i \in 1..Len(dated) |->
          nueva_fila(imported_n(OpRows(d), i), dated[i].Fecha, dated[i].Proveedor,
                     ToNum(dated[i].Cantidad), ToNum(dated[i].PesoSalida),
                     ToNum(dated[i].PesoEntrada), dated[i].TipoDocumento,
                     ToNum(dated[i].Gavetas), ToNum(dated[i].PrecioUnitario))]

\* lines 488-501: the frame built from the sheet "registro de depositos"
df_depositos_importado(sheet, deposits) ==
    LET dated == SelectSeq(CoerceDates(sheet), LAMBDA r : r.Fecha # NaT)
    IN [i \in 1..Len(dated) |->
          [Fecha |-> dated[i].Fecha, Empresa |-> dated[i].Empresa,
           Agencia |-> dated[i].Agencia, Monto |-> ToNum(dated[i].Monto),
           Documento |-> documento_of(dated[i].Agencia),
           N |-> imported_n(deposits, i)]]

\* lines 513-532: the frame built from the sheet "registro de notas de debito"
df_notas_debito_importado(sheet, d) ==
    LET dated == SelectSeq(CoerceDates(sheet), LAMBDA r : r.Fecha # NaT)
    IN [i \in 1..Len(dated) |->
          LET libras == IF Len(d) # 0 THEN libras_calculadas(d, dated[i].Fecha) ELSE 0
          IN [Fecha |-> dated[i].Fecha, LibrasCalculadas |-> libras,
              Descuento |-> ToNum(dated[i].Descuento),
              DescuentoPosible |-> libras * ToNum(dated[i].Descuento),
              DescuentoReal |-> ToNum(dated[i].DescuentoReal)]]

ExcelRow(fecha, proveedor) ==
    [Fecha |-> fecha, Proveedor |-> proveedor, Cantidad |-> 2, PesoSalida |-> 3,
     PesoEntrada |-> 1, TipoDocumento |-> "Factura", Gavetas |-> 0, PrecioUnitario |-> 1]

\* the sheets an uploaded workbook is tried with
SheetsProveedores == {<<>>, <<ExcelRow(1, "LIRIS SA")>>, <<ExcelRow(2, BALANCE_INICIAL)>>,
                      <<ExcelRow(NaT, "LIRIS SA")>>}

SheetsDepositos == {<<>>, <<[Fecha |-> 1, Empresa |-> "LIRIS SA",
                             Agencia |-> "Banco Pichincha", Monto |-> 3000000]>>}

SheetsNotas == {<<>>, <<[Fecha |-> 1, Descuento |-> 10, DescuentoReal |-> 700000]>>}

\* lines 434-567, with the button "Cargar datos a registros desde Excel" pressed
import_excel_data(sheet_p, sheet_d, sheet_n) ==
    /\ pc = "ui"
    /\ LET imp_p == df_proveedores_importado(sheet_p, data)
           imp_d == df_depositos_importado(sheet_d, df)
           imp_n == df_notas_debito_importado(sheet_n, data)
       IN /\ Len(data) + Len(imp_p) <= MaxRows + 1
          /\ \A i \in 1..Len(imp_p) : ParseDigits(imp_p[i].N) <= MaxN
          /\ Len(df) + Len(imp_d) <= MaxDeposits
          /\ Len(notas) + Len(imp_n) <= MaxNotes
          /\ \E s1, s2, s3, s4 \in SaveOutcomes :
               LET data1 == IF Len(imp_p) # 0
                            THEN AnchorRows(data) \o OpRows(data) \o imp_p ELSE data
                   df1 == IF Len(imp_d) # 0 THEN df \o imp_d ELSE df
                   notas1 == IF Len(imp_n) # 0 THEN notas \o imp_n ELSE notas
                   db1 == IF Len(imp_p) # 0 THEN Saved(db_data, data1, s1) ELSE db_data
                   data_imported == \/ "data_imported" \in flags
                                    \/ (Len(imp_p) # 0 /\ s1 = "ok")
                                    \/ (Len(imp_d) # 0 /\ s2 = "ok")
                                    \/ (Len(imp_n) # 0 /\ s3 = "ok")
                   failed == \/ (Len(imp_p) # 0 /\ s1 # "ok")
                             \/ (Len(imp_d) # 0 /\ s2 # "ok")
                             \/ (Len(imp_n) # 0 /\ s3 # "ok")
                   d == Recalculated(data1, df1, notas1)
                   spent == (IF Len(imp_p) # 0 THEN Cost(s1) ELSE 0)
                              + (IF Len(imp_d) # 0 THEN Cost(s2) ELSE 0)
                              + (IF Len(imp_n) # 0 THEN Cost(s3) ELSE 0)
                              + (IF data_imported THEN Cost(s4) ELSE 0)
               IN /\ (Len(imp_p) = 0 => s1 = "ok")
                  /\ (Len(imp_d) = 0 => s2 = "ok")
                  /\ (Len(imp_n) = 0 => s3 = "ok")
                  /\ (~data_imported => s4 = "ok")
                  /\ spent <= faults
                  /\ faults' = faults - spent
                  /\ df' = df1
                  /\ notas' = notas1
                  /\ db_df' = IF Len(imp_d) # 0 THEN Saved(db_df, df1, s2) ELSE db_df
                  /\ db_notas' = IF Len(imp_n) # 0 THEN Saved(db_notas, notas1, s3)
                                 ELSE db_notas
                  /\ IF data_imported
                     THEN /\ data' = d
                          /\ db_data' = Saved(db1, d, s4)
                          /\ flags' = flags \cup {"data_imported"}
                          /\ outcome' = "success"
                          /\ pc' = "start"
                     ELSE /\ data' = data1
                          /\ db_data' = db1
                          /\ flags' = flags
                          /\ outcome' = IF failed THEN "error" ELSE "none"
                          /\ pc' = "tables"
    /\ call' = [op |-> "import_excel_data", index |-> 0]
    /\ assigned' = Max({assigned} \cup
                        {ParseDigits(imported_n(OpRows(data), i)) :
                           i \in 1..Len(df_proveedores_importado(sheet_p, data))})
    /\ UNCHANGED <<loaded, other>>

----------------------------------------------------------------------------
(* Inline table save *)

DepositChanges == {[Agencia |-> "Banco Pichincha"], [Agencia |-> "Cajero Automatico Pichincha"]}

NoteChanges == {[DescuentoReal |-> 0], [Fecha |-> 2]}

\* lines 860-906: "Guardar Cambios" pressed with one edited row.  For "Tabla de
\* Registros" df_source is the frame without the BALANCE_INICIAL row (line 910).
display_formatted_dataframe(title, idx, changes) ==
    /\ pc = "ui"
    /\ call' = [op |-> "display_formatted_dataframe", index |-> idx]
    /\ \E s \in SaveOutcomes :
         /\ Cost(s) <= faults
         /\ faults' = faults - Cost(s)
         /\ outcome' = IF s = "ok" THEN "success" ELSE "none"
         /\ IF title = "Tabla de Registros"
            THEN /\ idx \in 1..Len(data)
                 /\ data[idx].Proveedor # BALANCE_INICIAL
                 /\ LET original_df_to_update ==
                           OpRows([data EXCEPT ![idx] = ApplyUpdate(@, changes)])
                    IN /\ data' = original_df_to_update
                       /\ db_data' = Saved(db_data, original_df_to_update, s)
                 /\ flags' = IF s = "ok" THEN flags \cup {"record_edited"} ELSE flags
                 /\ UNCHANGED <<df, notas, db_df, db_notas>>
            ELSE IF title = "Depositos Registrados"
            THEN /\ idx \in 1..Len(df)
                 /\ LET original_df_to_update == [df EXCEPT ![idx] = ApplyUpdate(@, changes)]
                    IN /\ df' = original_df_to_update
                       /\ db_df' = Saved(db_df, original_df_to_update, s)
                 /\ flags' = IF s = "ok" THEN flags \cup {"deposit_edited"} ELSE flags
                 /\ UNCHANGED <<data, notas, db_data, db_notas>>
            ELSE /\ idx \in 1..Len(notas)
                 /\ LET original_df_to_update == [notas EXCEPT ![idx] = ApplyUpdate(@, changes)]
                    IN /\ notas' = original_df_to_update
                       /\ db_notas' = Saved(db_notas, original_df_to_update, s)
                 /\ flags' = IF s = "ok" THEN flags \cup {"debit_note_edited"} ELSE flags
                 /\ UNCHANGED <<data, df, db_data, db_df>>
    /\ pc' = "end"
    /\ UNCHANGED <<loaded, other, assigned>>

----------------------------------------------------------------------------
(* The session: a fresh installation, then script runs *)

Init ==
    /\ data = <<>>
    /\ df = <<>>
    /\ notas = <<>>
    /\ loaded = FALSE
    /\ flags = {}
    /\ db_data = <<>>
    /\ db_df = <<>>
    /\ db_notas = <<>>
    /\ faults \in 0..MaxFaults
    /\ pc = "start"
    /\ call = NoCall
    /\ outcome = "none"
    /\ other = NoSession
    /\ assigned = 0

\* the script run with the handlers of the transaction rows and the import
Next ==
    \/ initialize_session_state
    \/ render_only
    \/ render_tables_and_download
    \/ flag_check
    \/ \E fecha \in FECHAS, proveedor \in ROW_PROVEEDORES, tipo \in TIPOS_DOCUMENTO,
          x \in SupplierInputs :
         add_supplier_record(fecha, proveedor, x[1], x[2], x[3], tipo, x[4], x[5])
    \/ \E i \in 1..(MaxRows + 2) : delete_record(i)
    \/ \E i \in 1..(MaxRows + 2), u \in UpdatedData : edit_supplier_record(i, u)
    \/ \E sheet_p \in SheetsProveedores : import_excel_data(sheet_p, <<>>, <<>>)
    \/ \E i \in 1..(MaxRows + 1), u \in UpdatedData :
         display_formatted_dataframe("Tabla de Registros", i, u)

Spec == Init /\ [][Next]_vars

\* the script run with add_supplier_record, delete_record and edit_supplier_record only
NextRows ==
    \/ initialize_session_state
    \/ render_only
    \/ render_tables_and_download
    \/ flag_check
    \/ \E fecha \in FECHAS, proveedor \in ROW_PROVEEDORES, tipo \in TIPOS_DOCUMENTO,
          x \in SupplierInputs :
         add_supplier_record(fecha, proveedor, x[1], x[2], x[3], tipo, x[4], x[5])
    \/ \E i \in 1..(MaxRows + 2) : delete_record(i)
    \/ \E i \in 1..(MaxRows + 2), u \in UpdatedData : edit_supplier_record(i, u)

SpecRows == Init /\ [][NextRows]_vars

\* the script run with the handlers of the deposits
NextDeposits ==
    \/ initialize_session_state
    \/ render_only
    \/ render_tables_and_download
    \/ flag_check
    \/ \E fecha \in FECHAS, empresa \in PROVEEDORES, agencia \in AGENCIAS, monto \in MONTOS :
         render_deposit_registration_form(fecha, empresa, agencia, monto)
    \/ \E i \in 1..MaxDeposits : delete_deposit_record(i)
    \/ \E i \in 1..MaxDeposits, fecha \in FECHAS, empresa \in PROVEEDORES,
          agencia \in AGENCIAS, monto \in MONTOS :
         render_edit_deposit_section(i, fecha, empresa, agencia, monto)
    \/ \E i \in 1..MaxDeposits, u \in DepositChanges :
         display_formatted_dataframe("Depositos Registrados", i, u)
    \/ \E sheet_d \in SheetsDepositos : import_excel_data(<<>>, sheet_d, <<>>)

SpecDeposits == Init /\ [][NextDeposits]_vars

\* the script run with the handlers of the debit notes
NextNotes ==
    \/ initialize_session_state
    \/ render_only
    \/ render_tables_and_download
    \/ flag_check
    \/ \E fecha \in FECHAS, descuento \in DESCUENTOS, real \in DESCUENTOS_REALES :
         render_debit_note_form(fecha, descuento, real)
    \/ \E i \in 1..MaxNotes : delete_debit_note_record(i)
    \/ \E i \in 1..MaxNotes, fecha \in FECHAS, descuento \in DESCUENTOS,
          real \in DESCUENTOS_REALES :
         render_edit_debit_note_section(i, fecha, descuento, real)
    \/ \E i \in 1..MaxNotes, u \in NoteChanges :
         display_formatted_dataframe("Tabla de Notas de Debito", i, u)
    \/ \E sheet_n \in SheetsNotas : import_excel_data(<<>>, <<>>, sheet_n)

SpecNotes == Init /\ [][NextNotes]_vars

----------------------------------------------------------------------------
(* A session that starts on tables earlier sessions left behind *)

\* most transaction rows in the table "proveedores" when a session starts
MaxStored == 2

\* <<N, Fecha, Proveedor>> of the stored transaction rows
StoredKeys == {<<<<0, 2>>, 1, "LIRIS SA">>, <<<<1, 1>>, 1, "LIRIS SA">>,
               <<<<1, 0, 0>>, 1, "LIRIS SA">>, <<<<1, 1>>, 2, "Gallina 1">>,
               <<<<0, 2>>, 2, "LIRIS SA">>, <<<<1, 0, 0>>, 1, "Gallina 1">>}

\* the rows as add_supplier_record and import_excel_data store them (lines 337-366, 534-539)
StoredRowChoices == {nueva_fila(k[1], k[2], k[3], 2, 3, 1, "Factura", 0, 1) : k \in StoredKeys}

StoredRows ==
    {s \in UNION {[1..n -> StoredRowChoices] : n \in 0..MaxStored} :
        \A i, j \in 1..Len(s) : i # j => s[i].N # s[j].N}

\* no anchor row yet; the anchor row as created; a row of an uploaded sheet whose
\* counterparty reads BALANCE_INICIAL, as import_excel_data stores it (line 539)
StoredAnchors == {<<>>, <<fila_inicial_saldo>>,
                  <<nueva_fila(<<0, 3>>, 2, BALANCE_INICIAL, 2, 3, 1, "Factura", 0, 1)>>}

StoredDepositChoices ==
    {[Fecha |-> k[1], Empresa |-> k[2], Agencia |-> "Banco Pichincha", Monto |-> k[3],
      Documento |-> "Transferencia", N |-> <<0, 1>>] :
        k \in {<<1, "LIRIS SA", 5000000>>, <<1, "Gallina 1", 3000000>>,
               <<2, "LIRIS SA", 3000000>>}}

StoredDeposits == UNION {[1..n -> StoredDepositChoices] : n \in 0..MaxDeposits}

StoredNoteChoices ==
    {[Fecha |-> 1, LibrasCalculadas |-> 0, Descuento |-> 0, DescuentoPosible |-> 0,
      DescuentoReal |-> 700000]}

StoredNotes == UNION {[1..n -> StoredNoteChoices] : n \in 0..MaxNotes}

InitRecalc ==
    /\ data = <<>>
    /\ df = <<>>
    /\ notas = <<>>
    /\ loaded = FALSE
    /\ flags = {}
    /\ \E anchor \in StoredAnchors, rows \in StoredRows : db_data = to_records(anchor \o rows)
    /\ \E deposits \in StoredDeposits : db_df = to_records(deposits)
    /\ \E notes \in StoredNotes : db_notas = to_records(notes)
    /\ faults = MaxFaults
    /\ pc = "start"
    /\ call = NoCall
    /\ outcome = "none"
    /\ other = NoSession
    /\ assigned = Max({0} \cup {ParseDigits(db_data[i].N) :
                                   i \in {j \in 1..Len(db_data) : ~IsAnchor(db_data[j])}})

\* script runs in which no handler is triggered
NextRecalc ==
    \/ initialize_session_state
    \/ render_only
    \/ flag_check

SpecRecalc == InitRecalc /\ [][NextRecalc]_vars

\* most deposit records in the table "depositos" when a session of SpecJoin starts
MaxJoined == 2

\* deposits of 50 and of 30 for one date and counterparty, and deposits that
\* differ from them in the date or in the counterparty (lines 266-273)
JoinedDepositChoices ==
    {[Fecha |-> k[1], Empresa |-> k[2], Agencia |-> "Banco Pichincha", Monto |-> k[3],
      Documento |-> "Transferencia", N |-> <<0, 1>>] :
        k \in {<<1, "LIRIS SA", 5000000>>, <<1, "LIRIS SA", 3000000>>,
               <<1, "Gallina 1", 3000000>>, <<2, "LIRIS SA", 3000000>>}}

JoinedDeposits == UNION {[1..n -> JoinedDepositChoices] : n \in 0..MaxJoined}

\* a session that starts on stored rows and several stored deposits
InitJoin ==
    /\ data = <<>>
    /\ df = <<>>
    /\ notas = <<>>
    /\ loaded = FALSE
    /\ flags = {}
    /\ \E rows \in StoredRows : db_data = to_records(<<fila_inicial_saldo>> \o rows)
    /\ \E deposits \in JoinedDeposits : db_df = to_records(deposits)
    /\ db_notas = <<>>
    /\ faults = MaxFaults
    /\ pc = "start"
    /\ call = NoCall
    /\ outcome = "none"
    /\ other = NoSession
    /\ assigned = Max({0} \cup {ParseDigits(db_data[i].N) :
                                   i \in {j \in 1..Len(db_data) : ~IsAnchor(db_data[j])}})

SpecJoin == InitJoin /\ [][NextRecalc]_vars

\* a session that starts on stored rows and stored debit notes, without deposits
InitDiscounts ==
    /\ data = <<>>
    /\ df = <<>>
    /\ notas = <<>>
    /\ loaded = FALSE
    /\ flags = {}
    /\ \E rows \in StoredRows : db_data = to_records(<<fila_inicial_saldo>> \o rows)
    /\ db_df = <<>>
    /\ \E notes \in StoredNotes : db_notas = to_records(notes)
    /\ faults = MaxFaults
    /\ pc = "start"
    /\ call = NoCall
    /\ outcome = "none"
    /\ other = NoSession
    /\ assigned = Max({0} \cup {ParseDigits(db_data[i].N) :
                                   i \in {j \in 1..Len(db_data) : ~IsAnchor(db_data[j])}})

SpecDiscounts == InitDiscounts /\ [][NextRecalc]_vars

\* the script run of a session on stored rows in which rows are deleted
NextDelete ==
    \/ initialize_session_state
    \/ render_only
    \/ flag_check
    \/ \E i \in 1..(MaxStored + 1) : delete_record(i)

SpecDelete == InitDiscounts /\ [][NextDelete]_vars

\* the numeric source columns of a transaction row (lines 166-168)
SourceFields == {"Cantidad", "PesoSalida", "PesoEntrada", "PrecioUnitario", "Gavetas"}

\* stored rows of two dates, well formed or with one numeric source column
\* that does not parse as a number
MalformedRowChoices ==
    LET rows == {nueva_fila(<<0, 1>>, 1, "LIRIS SA", 2, 3, 1, "Factura", 0, 1),
                 nueva_fila(<<0, 2>>, 2, "LIRIS SA", 2, 3, 1, "Factura", 0, 1)}
    IN rows \cup {[r EXCEPT ![c] = NaN] : r \in rows, c \in SourceFields}

MalformedRows ==
    {s \in UNION {[1..n -> MalformedRowChoices] : n \in 0..MaxStored} :
        \A i, j \in 1..Len(s) : i # j => s[i].N # s[j].N}

\* a stored deposit, its amount a number or not
MalformedDepositChoices ==
    {[Fecha |-> 1, Empresa |-> "LIRIS SA", Agencia |-> "Banco Pichincha", Monto |-> m,
      Documento |-> "Transferencia", N |-> <<0, 1>>] : m \in {5000000, NaN}}

MalformedDeposits == UNION {[1..n -> MalformedDepositChoices] : n \in 0..MaxDeposits}

\* a stored debit note, its real discount a number or not
MalformedNoteChoices ==
    {[Fecha |-> 1, LibrasCalculadas |-> 0, Descuento |-> 0, DescuentoPosible |-> 0,
      DescuentoReal |-> x] : x \in {700000, NaN}}

MalformedNotes == UNION {[1..n -> MalformedNoteChoices] : n \in 0..MaxNotes}

\* a session that starts on stored tables with values that do not parse, the
\* connection working throughout
InitCoerce ==
    /\ data = <<>>
    /\ df = <<>>
    /\ notas = <<>>
    /\ loaded = FALSE
    /\ flags = {}
    /\ \E rows \in MalformedRows : db_data = to_records(<<fila_inicial_saldo>> \o rows)
    /\ \E deposits \in MalformedDeposits : db_df = to_records(deposits)
    /\ \E notes \in MalformedNotes : db_notas = to_records(notes)
    /\ faults = 0
    /\ pc = "start"
    /\ call = NoCall
    /\ outcome = "none"
    /\ other = NoSession
    /\ assigned = Max({0} \cup {ParseDigits(db_data[i].N) :
                                   i \in {j \in 1..Len(db_data) : ~IsAnchor(db_data[j])}})

SpecCoerce == InitCoerce /\ [][NextRecalc]_vars

\* <<N, Fecha>> of stored rows, two of them without a date that parses
UndatedKeys == {<<<<0, 1>>, 1>>, <<<<0, 2>>, NaT>>, <<<<0, 3>>, 2>>, <<<<0, 4>>, NaT>>}

UndatedRowChoices ==
    {nueva_fila(k[1], k[2], "LIRIS SA", 2, 3, 1, "Factura", 0, 1) : k \in UndatedKeys}

UndatedRows ==
    {s \in UNION {[1..n -> UndatedRowChoices] : n \in 0..MaxStored} :
        \A i, j \in 1..Len(s) : i # j => s[i].N # s[j].N}

\* a stored deposit with a date and one without
UndatedDepositChoices ==
    {[Fecha |-> f, Empresa |-> "LIRIS SA", Agencia |-> "Banco Pichincha", Monto |-> 5000000,
      Documento |-> "Transferencia", N |-> <<0, 1>>] : f \in {1, NaT}}

UndatedDeposits == UNION {[1..n -> UndatedDepositChoices] : n \in 0..MaxDeposits}

\* a session that starts on stored rows and deposits some of which have no date
InitUndated ==
    /\ data = <<>>
    /\ df = <<>>
    /\ notas = <<>>
    /\ loaded = FALSE
    /\ flags = {}
    /\ \E rows \in UndatedRows : db_data = to_records(<<fila_inicial_saldo>> \o rows)
    /\ \E deposits \in UndatedDeposits : db_df = to_records(deposits)
    /\ \E notes \in StoredNotes : db_notas = to_records(notes)
    /\ faults = MaxFaults
    /\ pc = "start"
    /\ call = NoCall
    /\ outcome = "none"
    /\ other = NoSession
    /\ assigned = Max({0} \cup {ParseDigits(db_data[i].N) :
                                   i \in {j \in 1..Len(db_data) : ~IsAnchor(db_data[j])}})

SpecUndated == InitUndated /\ [][NextRecalc]_vars

\* a session on stored rows and debit notes in which debit notes are written
SpecNoteWrites == InitDiscounts /\ [][NextNotes]_vars

----------------------------------------------------------------------------
(* Two browser sessions on the same tables: each has its own st.session_state *)

\* the tables "depositos" and "notas_debito" as the second session loaded them
\* (no session writes them here)
other_df == load_dataframe(db_df, TRUE)

other_notas == load_dataframe(db_notas, TRUE)

\* lines 113-143 in the first script run of the second session
other_initialize_session_state ==
    /\ ~other.loaded
    /\ LET data0 == load_dataframe(db_data, TRUE)
           absent == Len(AnchorRows(data0)) = 0
           data1 == IF absent THEN <<fila_inicial_saldo>> \o data0 ELSE data0
           data2 == Recalculated(data1, other_df, other_notas)
       IN /\ other' = [loaded |-> TRUE, data |-> data2]
          /\ db_data' = Saved(db_data, data2, "ok")
    /\ UNCHANGED <<data, df, notas, loaded, flags, db_df, db_notas, faults, pc, call,
                   outcome, assigned>>

\* lines 143, 242-243: a later script run of the second session, no handler triggered
other_recalculate ==
    /\ other.loaded
    /\ LET d == Recalculated(other.data, other_df, other_notas)
       IN /\ other' = [other EXCEPT !.data = d]
          /\ db_data' = Saved(db_data, d, "ok")
    /\ UNCHANGED <<data, df, notas, loaded, flags, db_df, db_notas, faults, pc, call,
                   outcome, assigned>>

\* lines 323-375, 1255-1263: a script run of the second session in which the
\* supplier form is submitted with valid values; its saves succeed
other_add_supplier_record(fecha, proveedor, cantidad, peso_salida, peso_entrada, tipo_documento, gavetas, precio_unitario) ==
    /\ other.loaded
    /\ Len(OpRows(other.data)) < MaxRows
    /\ ParseDigits(get_next_n(other.data)) <= MaxN
    /\ LET fila == nueva_fila(get_next_n(other.data), fecha, proveedor, cantidad,
                              peso_salida, peso_entrada, tipo_documento, gavetas,
                              precio_unitario)
           new == AnchorRows(other.data) \o Append(OpRows(other.data), fila)
           d == Recalculated(new, other_df, other_notas)
       IN /\ other' = [other EXCEPT !.data = d]
          /\ db_data' = Saved(Saved(db_data, new, "ok"), d, "ok")
    /\ assigned' = Max({assigned, ParseDigits(get_next_n(other.data))})
    /\ UNCHANGED <<data, df, notas, loaded, flags, db_df, db_notas, faults, pc, call, outcome>>

\* the debit note add_debit_note stores for date fecha_nota when the dataset
\* is d (lines 569-580), with a rate of 0.10 and an applied discount of 7
NotaOf(d, fecha_nota) ==
    [Fecha |-> fecha_nota, LibrasCalculadas |-> libras_calculadas(d, fecha_nota),
     Descuento |-> 10,
     DescuentoPosible |-> libras_calculadas(d, fecha_nota) * 10,
     DescuentoReal |-> 700000]

\* a session that starts on at most one stored row, at most one stored deposit, and at
\* most one debit note written when the stored rows were the dataset
InitTransactions ==
    /\ data = <<>>
    /\ df = <<>>
    /\ notas = <<>>
    /\ loaded = FALSE
    /\ flags = {}
    /\ \E rows \in {<<>>, <<nueva_fila(<<0, 1>>, 1, "LIRIS SA", 2, 3, 1, "Factura", 0, 1)>>},
          noted \in BOOLEAN :
          /\ db_data = to_records(<<fila_inicial_saldo>> \o rows)
          /\ db_notas = IF noted THEN to_records(<<NotaOf(rows, 1)>>) ELSE <<>>
    /\ \E deposits \in {<<>>} \cup {<<dep>> : dep \in StoredDepositChoices} :
          db_df = to_records(deposits)
    /\ faults = MaxFaults
    /\ pc = "start"
    /\ call = NoCall
    /\ outcome = "none"
    /\ other = NoSession
    /\ assigned = Max({0} \cup {ParseDigits(db_data[i].N) :
                                   i \in {j \in 1..Len(db_data) : ~IsAnchor(db_data[j])}})

\* the script run with the functions of the transaction rows, on stored tables
NextTransactions ==
    \/ initialize_session_state
    \/ render_only
    \/ render_tables_and_download
    \/ flag_check
    \/ \E fecha \in FECHAS :
         add_supplier_record(fecha, "LIRIS SA", 2, 3, 1, "Factura", 0, 1)
    \/ \E i \in 1..(MaxRows + 1) : delete_record(i)
    \/ \E i \in 1..(MaxRows + 1) : edit_supplier_record(i, [Fecha |-> 2, Cantidad |-> -1])

SpecTransactions == InitTransactions /\ [][NextTransactions]_vars

\* the script runs of two sessions, interleaved; both submit the supplier form
NextSessions ==
    \/ initialize_session_state
    \/ render_only
    \/ render_tables_and_download
    \/ flag_check
    \/ \E fecha \in FECHAS :
         add_supplier_record(fecha, "LIRIS SA", 2, 3, 1, "Factura", 0, 1)
    \/ other_initialize_session_state
    \/ other_recalculate
    \/ \E fecha \in FECHAS :
         other_add_supplier_record(fecha, "LIRIS SA", 2, 3, 1, "Factura", 0, 1)

SpecSessions == Init /\ [][NextSessions]_vars

----------------------------------------------------------------------------
(* What the documentation states about reconciliation *)

\* the dates that have operational rows in dataset d
OperationalDates(d) ==
    {d[i].Fecha : i \in {j \in 1..Len(d) : ~IsAnchor(d[j]) /\ d[j].Fecha # NaT}}

\* the operational rows of d dated f
RowsOn(d, f) == SelectSeq(d, LAMBDA r : ~IsAnchor(r) /\ r.Fecha = f)

\* the adjusted daily net of date f, as reconciliation left it on f's rows
AdjustedNet(d, f) == RowsOn(d, f)[1].SaldoDiario

RECURSIVE FnSum(_)
\* the sum of the values of a function with a finite domain
FnSum(f) ==
    IF DOMAIN f = {} THEN 0
    ELSE LET x == CHOOSE x \in DOMAIN f : TRUE
         IN f[x] + FnSum([y \in DOMAIN f \ {x} |-> f[y]])

\* C1: reconciliation is idempotent.  The session's dataset, which
\* recalculate_accumulated_balances has just produced, is produced again,
\* row for row and field for field, by a second run on the same deposits and notes.
C1_Idempotent == pc = "ui" => Recalculated(data, df, notas) = data

\* C1 on a dataset with operational rows on two dates, a deposit and a note
C1_Witness ==
    /\ pc = "ui"
    /\ Cardinality(OperationalDates(data)) = 2
    /\ Len(df) >= 1
    /\ Len(notas) >= 1
    /\ \E i \in 1..Len(data) : ~IsAnchor(data[i]) /\ data[i].MontoDeposito > 0

\* C2: after reconciliation the cumulative balance of every operational row
\* dated f is the starting constant plus the adjusted daily nets of the
\* operational dates up to and including f.
C2_CumulativeBalance ==
    pc = "ui" =>
        \A i \in 1..Len(data) :
            (~IsAnchor(data[i]) /\ data[i].Fecha # NaT) =>
                data[i].SaldoAcumulado =
                    INITIAL_ACCUMULATED_BALANCE
                      + FnSum([g \in {h \in OperationalDates(data) : h <= data[i].Fecha}
                                 |-> AdjustedNet(data, g)])

\* C2 on a later date whose balance carries the net of an earlier date
C2_Witness ==
    /\ pc = "ui"
    /\ \E i, j \in 1..Len(data) :
         /\ ~IsAnchor(data[i]) /\ ~IsAnchor(data[j])
         /\ data[i].Fecha # NaT /\ data[i].Fecha < data[j].Fecha
         /\ data[i].SaldoDiario # 0
         /\ data[j].SaldoAcumulado # INITIAL_ACCUMULATED_BALANCE + data[j].SaldoDiario

\* the amounts of the deposit records dated f
DepositsOn(f) == SeqSum([i \in 1..Len(df) |-> IF df[i].Fecha = f THEN df[i].Monto ELSE 0])

\* the amounts of the deposit records dated f that name counterparty p
DepositsOf(f, p) ==
    SeqSum([i \in 1..Len(df) |->
              IF df[i].Fecha = f /\ df[i].Empresa = p THEN df[i].Monto ELSE 0])

\* the row totals of the operational rows dated f
TotalsOn(f) ==
    SeqSum([i \in 1..Len(data) |->
              IF ~IsAnchor(data[i]) /\ data[i].Fecha = f THEN data[i].Total ELSE 0])

\* the declared real discounts of the debit notes dated f
NotesOn(f) ==
    SeqSum([i \in 1..Len(notas) |-> IF notas[i].Fecha = f THEN notas[i].DescuentoReal ELSE 0])

\* C3: for every date with operational rows, the adjusted daily net is the
\* deposits of that date minus the row totals of that date plus the real
\* discounts of that date's debit notes.
C3_AdjustedDailyNet ==
    pc = "ui" =>
        \A f \in OperationalDates(data) :
            AdjustedNet(data, f) = DepositsOn(f) - TotalsOn(f) + NotesOn(f)

\* the daily net of date f with every (date, counterparty) deposit total counted once
NetCountedOnce(f) ==
    FnSum([p \in {RowsOn(data, f)[i].Proveedor : i \in 1..Len(RowsOn(data, f))}
             |-> DepositsOf(f, p)])
      - TotalsOn(f) + NotesOn(f)

\* C4: when operational rows share a date and a counterparty, the cumulative
\* balance of every dated operational row is what it would be with each
\* (date, counterparty) deposit total counted once in the daily nets.
C4_DepositCountedOnce ==
    (/\ pc = "ui"
     /\ \E i, j \in 1..Len(data) :
          /\ i # j
          /\ ~IsAnchor(data[i]) /\ ~IsAnchor(data[j])
          /\ data[i].Fecha = data[j].Fecha /\ data[i].Proveedor = data[j].Proveedor)
    => \A i \in 1..Len(data) :
          (~IsAnchor(data[i]) /\ data[i].Fecha # NaT) =>
              data[i].SaldoAcumulado =
                  INITIAL_ACCUMULATED_BALANCE
                    + FnSum([g \in {h \in OperationalDates(data) : h <= data[i].Fecha}
                               |-> NetCountedOnce(g)])

\* C5: once the session is initialized, the transaction dataset holds exactly
\* one row whose counterparty is BALANCE_INICIAL, whatever add, edit, delete,
\* inline save, import and reconciliation have run.
C5_ExactlyOneAnchor == loaded => Len(AnchorRows(data)) = 1

\* C6: after reconciliation every anchor row of the dataset carries the
\* starting constant as its cumulative balance, whatever it held before.
C6_AnchorBalance ==
    pc = "ui" =>
        \A i \in 1..Len(data) :
            IsAnchor(data[i]) => data[i].SaldoAcumulado = INITIAL_ACCUMULATED_BALANCE

\* C6 on an anchor row that an import stored with balance 0 (it still holds
\* the count a sheet row holds), reconciled among operational rows and a deposit
C6_Witness ==
    /\ pc = "ui"
    /\ \E i \in 1..Len(data) : IsAnchor(data[i]) /\ data[i].Cantidad = 2
    /\ Len(OpRows(data)) >= 1
    /\ Len(df) >= 1

\* C7: delete_record and edit_supplier_record, given the index of the anchor
\* row, report an error and leave the dataset, the table "proveedores" and
\* the flags as they were.
C7_AnchorRejected ==
    [][(/\ pc = "ui"
        /\ call'.op \in {"delete_record", "edit_supplier_record"}
        /\ call'.index \in 1..Len(data)
        /\ IsAnchor(data[call'.index]))
       => (/\ outcome' = "error"
           /\ data' = data
           /\ db_data' = db_data
           /\ flags' = flags)]_vars

\* C7 after delete_record was given the anchor row of a dataset that also
\* holds an operational row
C7_Witness ==
    /\ pc = "end"
    /\ call.op = "delete_record"
    /\ call.index \in 1..Len(data)
    /\ IsAnchor(data[call.index])
    /\ outcome = "error"
    /\ Len(OpRows(data)) >= 1

\* C8: every stored operational row has inbound weight <= outbound weight,
\* and after reconciliation its net weight is >= 0.
C8_InboundWithinOutbound ==
    \A i \in 1..Len(data) :
        ~IsAnchor(data[i]) =>
            /\ ToNum(data[i].PesoEntrada) <= ToNum(data[i].PesoSalida)
            /\ (pc = "ui" => data[i].KilosRestantes >= 0)

\* updated_data carries a negative number, or an inbound weight above the
\* outbound weight the row would then have
InvalidUpdate(r, u) ==
    \/ \E k \in DOMAIN u \cap {"Cantidad", "PesoSalida", "PesoEntrada", "Gavetas",
                                "PrecioUnitario"} : u[k] < 0
    \/ ApplyUpdate(r, u).PesoEntrada > ApplyUpdate(r, u).PesoSalida

\* <<cantidad, peso_salida, peso_entrada, gavetas, precio_unitario>> carries a
\* negative number or an inbound weight above the outbound weight
InvalidEntry(x) == (\E k \in 1..5 : x[k] < 0) \/ x[3] > x[2]

\* what a blocked mutation leaves: an error, and every collection, table and flag as it was
Blocked ==
    /\ outcome' = "error"
    /\ UNCHANGED <<data, df, notas, db_data, db_df, db_notas, flags>>

\* C9: an add or an edit of a transaction row that carries a negative number
\* or an inbound weight above the outbound weight is reported as an error
\* and changes no collection, no table and no flag.
C9_ValidationBlocks ==
    [][/\ \A fecha \in FECHAS, proveedor \in ROW_PROVEEDORES, tipo \in TIPOS_DOCUMENTO,
             x \in SupplierInputs :
            (/\ InvalidEntry(x)
             /\ add_supplier_record(fecha, proveedor, x[1], x[2], x[3], tipo, x[4], x[5]))
            => Blocked
       /\ \A i \in 1..Len(data), u \in UpdatedData :
            (/\ ~IsAnchor(data[i])
             /\ InvalidUpdate(data[i], u)
             /\ edit_supplier_record(i, u))
            => Blocked]_vars

\* a date that does not sort after another (a missing date sorts last)
DateLeq(a, b) == b = NaT \/ (a # NaT /\ a <= b)

\* C10: after reconciliation the dataset is in ascending order of date and,
\* within a date, in ascending order of the number that N denotes.
C10_NumericOrder ==
    pc = "ui" =>
        \A i, j \in 1..Len(data) :
            i < j =>
                /\ DateLeq(data[i].Fecha, data[j].Fecha)
                /\ (data[i].Fecha = data[j].Fecha =>
                      ParseDigits(data[i].N) <= ParseDigits(data[j].N))

\* C11: the N that add_supplier_record gives a new row is greater than every
\* N a row was given before, rows since deleted included, and no two stored
\* operational rows share an N.
C11_FreshIdentifier ==
    [][(/\ pc = "ui"
        /\ call'.op = "add_supplier_record"
        /\ Len(OpRows(data')) = Len(OpRows(data)) + 1)
       => (/\ ParseDigits(OpRows(data')[Len(OpRows(data'))].N) > assigned
           /\ \A i, j \in 1..Len(OpRows(data')) :
                i # j => OpRows(data')[i].N # OpRows(data')[j].N)]_vars

\* C12: when the tables are shown after an add, edit or delete handler has
\* changed a collection, the dataset shown is the one that
\* recalculate_accumulated_balances produces from the collections as they
\* then stand, whether the handler's save succeeded or failed.
C12_RecalculatedBeforeTables ==
    (pc = "tables" /\ call # NoCall) => data = Recalculated(data, df, notas)

\* C13: once a save has failed, a run of recalculate_accumulated_balances
\* whose own save succeeds leaves each persisted table (transactions,
\* deposits, debit notes) equal to the in-memory collection of its kind.
C13_RecoveredByRecalculation ==
    [][(/\ faults < MaxFaults
        /\ \/ pc = "start" /\ loaded
           \/ pc = "end" /\ flags # {}
        /\ faults' = faults)
       => (/\ db_data' = to_records(data')
           /\ db_df' = to_records(df')
           /\ db_notas' = to_records(notas'))]_vars

AddOps == {"add_supplier_record", "add_deposit_record", "add_debit_note"}

DeleteOps == {"delete_record", "delete_deposit_record", "delete_debit_note_record"}

EditOps == {"edit_supplier_record", "edit_deposit_record", "edit_debit_note_record"}

\* the collection (or table) of the kind an add, edit or delete function works on
KindOf(op, rows, deposits, notes) ==
    IF op \in {"add_supplier_record", "delete_record", "edit_supplier_record"} THEN rows
    ELSE IF op \in {"add_deposit_record", "delete_deposit_record", "edit_deposit_record"}
    THEN deposits
    ELSE notes

\* a step of an add, edit or delete function in which save_dataframe failed
SaveFailedInHandler ==
    /\ pc = "ui"
    /\ call'.op \in AddOps \cup DeleteOps \cup EditOps
    /\ faults' < faults

\* C14: when save_dataframe fails inside an add, edit or delete function, the
\* outcome is an error (add_supplier_record returns False), no mutation flag
\* is set, the session's collection keeps the added, edited or deleted state,
\* and the table is not written with it, so that a table that agreed with
\* the collection before no longer agrees with it.
C14_SaveFailureReported ==
    [][SaveFailedInHandler =>
        LET op == call'.op
            before == KindOf(op, data, df, notas)
            after == KindOf(op, data', df', notas')
            table == KindOf(op, db_data, db_df, db_notas)
            table_after == KindOf(op, db_data', db_df', db_notas')
        IN /\ outcome' = "error"
           /\ flags' = flags
           /\ op \in AddOps => Len(after) = Len(before) + 1
           /\ op \in DeleteOps => Len(after) = Len(before) - 1
           /\ op \in EditOps => Len(after) = Len(before)
           /\ table_after \in {table, <<>>}
           /\ (table = to_records(before) /\ after # before /\ after # <<>>)
                => table_after # to_records(after)]_vars

\* add_supplier_record has just failed to save: the row is in the session, not in the table
C14_Witness ==
    /\ call.op = "add_supplier_record"
    /\ outcome = "error"
    /\ faults < MaxFaults
    /\ pc = "tables"
    /\ Len(OpRows(data)) = 1
    /\ flags = {}
    /\ Len(db_data) < Len(data)

\* C15: after reconciliation every operational row's deposit amount is the
\* sum of the deposits whose date and counterparty both equal the row's, and
\* zero when no deposit matches or there are no deposits.
C15_ExactMatchDeposit ==
    pc = "ui" =>
        \A i \in 1..Len(data) :
            ~IsAnchor(data[i]) => data[i].MontoDeposito = DepositsOf(data[i].Fecha, data[i].Proveedor)

\* deposits of 50 and 30 for a row's date and counterparty give the row 80,
\* while another row of that date, of another counterparty, is given zero
C15_Witness ==
    /\ pc = "ui"
    /\ Len(df) = 2
    /\ df[1].Monto = 5000000 /\ df[2].Monto = 3000000
    /\ \E i, j \in 1..Len(data) :
         /\ ~IsAnchor(data[i]) /\ ~IsAnchor(data[j])
         /\ data[i].Fecha = data[j].Fecha
         /\ data[i].MontoDeposito = 8000000
         /\ data[j].MontoDeposito = 0

\* <<Libras calculadas, Descuento, Descuento posible>> given to every debit note
InfoValues == {<<22046200, 10000, 2204620>>, <<44092400, 50000, 22046200>>}

\* the debit notes with their informational fields replaced
WithInfo(notes, v) ==
    [i \in 1..Len(notes) |->
        [notes[i] EXCEPT !.LibrasCalculadas = v[1], !.Descuento = v[2],
                         !.DescuentoPosible = v[3]]]

\* C16: the informational fields of the debit notes (rate, eligible weight,
\* possible discount) have no influence on the reconciled dataset: with any
\* other values in them reconciliation gives the same daily nets and
\* cumulative balances, while a change of a note's Descuento real moves the
\* daily net of the rows of the note's date by that change.
C16_InformationalFieldsInert ==
    pc = "ui" =>
        /\ \A v \in InfoValues : Recalculated(data, df, WithInfo(notas, v)) = data
        /\ \A n \in 1..Len(notas) :
              LET moved == Recalculated(data, df, [notas EXCEPT ![n].DescuentoReal = @ + 100000])
              IN \A k \in 1..Len(data) :
                    (~IsAnchor(data[k]) /\ data[k].Fecha = notas[n].Fecha) =>
                        moved[k].SaldoDiario = data[k].SaldoDiario + 100000

\* a reconciled row whose daily net includes the real discount of a debit note of its date
C16_Witness ==
    /\ pc = "ui"
    /\ Len(notas) = 1
    /\ \E k \in 1..Len(data) :
         /\ ~IsAnchor(data[k])
         /\ data[k].Fecha = notas[1].Fecha
         /\ Len(RowsOn(data, data[k].Fecha)) = 1
         /\ data[k].SaldoDiario = data[k].MontoDeposito - data[k].Total + notas[1].DescuentoReal

\* delete_record is deleting the operational row at call'.index
DeletingRow ==
    /\ pc = "ui"
    /\ call'.op = "delete_record"
    /\ call'.index \in 1..Len(data)
    /\ ~IsAnchor(data[call'.index])

\* the row of dataset d that has identifier n
RowOfN(d, n) == d[CHOOSE i \in 1..Len(d) : ~IsAnchor(d[i]) /\ d[i].N = n]

\* C17: when delete_record removes the only operational row of a date D,
\* the reconciliation of what is left has no row and no daily net for D,
\* every row of a later date has its former cumulative balance less the
\* adjusted daily net D had (debit-note discount included), and the rows of
\* earlier dates keep their cumulative balance.
C17_DeleteOnlyRowOfDate ==
    [][(DeletingRow /\ Len(RowsOn(data, data[call'.index].Fecha)) = 1) =>
        LET D == data[call'.index].Fecha
            net == AdjustedNet(data, D)
            after == Recalculated(data', df', notas')
        IN /\ D \notin OperationalDates(after)
           /\ Len(OpRows(after)) = Len(OpRows(data)) - 1
           /\ \A k \in 1..Len(after) :
                 ~IsAnchor(after[k]) =>
                    after[k].SaldoAcumulado =
                        IF after[k].Fecha > D
                        THEN RowOfN(data, after[k].N).SaldoAcumulado - net
                        ELSE RowOfN(data, after[k].N).SaldoAcumulado]_vars

\* the only row of date 1, whose daily net includes a debit note, has just been
\* deleted and a row of date 2 is left
C17_Witness ==
    /\ pc = "end"
    /\ call.op = "delete_record"
    /\ outcome = "success"
    /\ Len(notas) = 1
    /\ OperationalDates(data) = {2}
    /\ Len(OpRows(data)) = 1
    /\ OpRows(data)[1].SaldoAcumulado # INITIAL_ACCUMULATED_BALANCE + OpRows(data)[1].SaldoDiario

\* the sequences that hold the elements of s in another order
Permuted(s) == {[i \in 1..Len(s) |-> s[p[i]]] : p \in Permutations(1..Len(s))}

\* C18: reconciliation does not depend on the order of its input collections:
\* with the transaction rows, the deposits and the debit notes each in any
\* other order it gives the same sorted dataset, row for row.
C18_OrderIndependent ==
    pc = "ui" =>
        \A d \in Permuted(data), f \in Permuted(df), n \in Permuted(notas) :
            Recalculated(d, f, n) = data

\* the collections with 0 in place of every value that is not a number: in
\* the numeric source columns of the operational rows, in the deposit amounts,
\* in the real discounts
ZeroedRows(d) ==
    [i \in 1..Len(d) |->
        IF IsAnchor(d[i]) THEN d[i]
        ELSE [k \in DOMAIN d[i] |->
                IF k \in SourceFields /\ d[i][k] = NaN THEN 0 ELSE d[i][k]]]

ZeroedDeposits(deposits) ==
    [i \in 1..Len(deposits) |->
        [deposits[i] EXCEPT !.Monto = IF @ = NaN THEN 0 ELSE @]]

ZeroedNotes(notes) ==
    [i \in 1..Len(notes) |->
        [notes[i] EXCEPT !.DescuentoReal = IF @ = NaN THEN 0 ELSE @]]

\* C19: reconciliation treats a value that is not a number as 0: the dataset
\* it produces from rows, deposits and notes holding such values is the one it
\* produces from the same collections with 0 in their place.
C19_MalformedAsZero ==
    [][(pc = "start" /\ pc' = "ui") =>
        LET source == IF loaded THEN data ELSE load_dataframe(db_data, TRUE)
        IN data' = Recalculated(ZeroedRows(source), ZeroedDeposits(df'), ZeroedNotes(notas'))]_vars

\* reconciled: a row that was stored with a price that is not a number, and a
\* deposit and a debit note of its date whose amounts are not numbers
C19_Witness ==
    /\ pc = "ui"
    /\ \E i \in 1..Len(df) : df[i].Monto = NaN
    /\ \E i \in 1..Len(notas) : notas[i].DescuentoReal = NaN
    /\ \E k \in 1..Len(data) :
         /\ ~IsAnchor(data[k])
         /\ data[k].Fecha = 1
         /\ data[k].PrecioUnitario = 0
         /\ data[k].SaldoDiario = 0

\* C20: after reconciliation the operational rows of one date all carry the
\* same daily net and the same cumulative balance, and that daily net is the
\* date's one adjusted net (the sum over the date's rows of deposit amount
\* less total, plus the date's real discounts), not the row's own deposit
\* amount less total.
C20_Broadcast ==
    pc = "ui" =>
        \A i, j \in 1..Len(data) :
            (~IsAnchor(data[i]) /\ ~IsAnchor(data[j]) /\ data[i].Fecha = data[j].Fecha
               /\ data[i].Fecha # NaT) =>
                /\ data[i].SaldoDiario = data[j].SaldoDiario
                /\ data[i].SaldoAcumulado = data[j].SaldoAcumulado
                /\ data[i].SaldoDiario =
                      SeqSum([k \in 1..Len(data) |->
                                IF ~IsAnchor(data[k]) /\ data[k].Fecha = data[i].Fecha
                                THEN data[k].MontoDeposito - data[k].Total ELSE 0])
                        + NotesOn(data[i].Fecha)

\* two reconciled rows of one date whose daily net is not either row's own
\* deposit amount less total
C20_Witness ==
    /\ pc = "ui"
    /\ \E i, j \in 1..Len(data) :
         /\ i # j
         /\ ~IsAnchor(data[i]) /\ ~IsAnchor(data[j])
         /\ data[i].Fecha = data[j].Fecha
         /\ data[i].MontoDeposito # data[j].MontoDeposito
         /\ data[i].SaldoDiario # data[i].MontoDeposito - data[i].Total
         /\ data[j].SaldoDiario # data[j].MontoDeposito - data[j].Total

\* the deposits whose date and counterparty are those of an operational row of d
MatchedDeposits(d, deposits) ==
    SelectSeq(deposits, LAMBDA x : \E i \in 1..Len(d) :
                 ~IsAnchor(d[i]) /\ d[i].Fecha = x.Fecha /\ d[i].Proveedor = x.Empresa)

\* the debit notes whose date is that of an operational row of d
MatchedNotes(d, notes) ==
    SelectSeq(notes, LAMBDA x : \E i \in 1..Len(d) : ~IsAnchor(d[i]) /\ d[i].Fecha = x.Fecha)

\* C21: a deposit that matches no operational row in date and counterparty,
\* and a debit note on a date without operational rows, add nothing to any
\* daily net or cumulative balance (the reconciled dataset is the one that
\* reconciliation gives without them), and no error is reported.
C21_UnmatchedDropped ==
    pc = "ui" =>
        /\ Recalculated(data, MatchedDeposits(data, df), MatchedNotes(data, notas)) = data
        /\ outcome # "error"

\* reconciled with a deposit that matches no row, a debit note on a date
\* without rows, and a row of a later date
C21_Witness ==
    /\ pc = "ui"
    /\ Len(df) >= 1 /\ MatchedDeposits(data, df) = <<>>
    /\ Len(notas) >= 1 /\ MatchedNotes(data, notas) = <<>>
    /\ \E i \in 1..Len(data) : ~IsAnchor(data[i]) /\ data[i].Fecha > notas[1].Fecha

\* dataset d without its operational rows that have no date
Dated(d) == SelectSeq(d, LAMBDA r : IsAnchor(r) \/ r.Fecha # NaT)

\* C22: after reconciliation an operational row without a date carries the
\* starting constant as its cumulative balance and 0 as its daily net, and
\* the other rows are reconciled as if it were not there: its total and its
\* deposit amount are in no date's daily net or cumulative balance.
C22_UndatedRowNeutral ==
    pc = "ui" =>
        /\ \A i \in 1..Len(data) :
              (~IsAnchor(data[i]) /\ data[i].Fecha = NaT) =>
                  /\ data[i].SaldoAcumulado = INITIAL_ACCUMULATED_BALANCE
                  /\ data[i].SaldoDiario = 0
        /\ Recalculated(Dated(data), df, notas) = Dated(data)

\* reconciled: a row without a date whose total is not zero, next to a dated row
C22_Witness ==
    /\ pc = "ui"
    /\ \E i, j \in 1..Len(data) :
         /\ ~IsAnchor(data[i]) /\ data[i].Fecha = NaT /\ data[i].Total # 0
         /\ ~IsAnchor(data[j]) /\ data[j].Fecha # NaT
    /\ \E k \in 1..Len(df) : df[k].Fecha = NaT

\* the derived columns of row r are those its source columns give
DerivationHolds(r) ==
    /\ r.KilosRestantes = r.PesoSalida - r.PesoEntrada
    /\ r.LibrasRestantes = r.KilosRestantes * LBS_PER_KG
    /\ r.Total = r.LibrasRestantes * r.PrecioUnitario
    /\ r.Promedio = IF r.Cantidad # 0 THEN Quot(r.LibrasRestantes, r.Cantidad) ELSE 0

\* C23: after every create, every edit and every reconciliation each
\* operational row of the dataset, in the session and in the table, has net
\* weight = outbound - inbound, converted weight = net * LBS_PER_KG,
\* total = converted * unit price, and average = converted / unit count, or
\* 0 when the unit count is 0.
C23_RowDerivation ==
    /\ \A i \in 1..Len(data) : ~IsAnchor(data[i]) => DerivationHolds(data[i])
    /\ \A i \in 1..Len(db_data) : ~IsAnchor(db_data[i]) => DerivationHolds(db_data[i])

\* values a derived column may have been left with: nothing numeric, a number
StaleValues == {NaN, 12345}

\* dataset d with v stored in every derived column of its operational rows
WithDerived(d, v) ==
    [i \in 1..Len(d) |->
        IF IsAnchor(d[i]) THEN d[i]
        ELSE [d[i] EXCEPT !.KilosRestantes = v, !.LibrasRestantes = v, !.Promedio = v,
                          !.Total = v, !.MontoDeposito = v, !.SaldoDiario = v,
                          !.SaldoAcumulado = v]]

ConvertedOn(d, f) ==
    SeqSum([i \in 1..Len(d) |->
              IF ~IsAnchor(d[i]) /\ d[i].Fecha = f THEN d[i].LibrasRestantes ELSE 0])

\* C25: a debit note that has just been added or edited holds, as eligible
\* weight, the converted weights of the operational rows of its date and, as
\* possible discount, that weight times its rate, whatever it held before.
C25_EligibleWeightAtWrite ==
    [][(/\ pc = "ui"
        /\ call'.op \in {"add_debit_note", "edit_debit_note_record",
                         "display_formatted_dataframe"})
       => \A i \in 1..Len(notas') :
             (i > Len(notas) \/ notas'[i] # notas[i]) =>
                 /\ notas'[i].LibrasCalculadas = ConvertedOn(data, notas'[i].Fecha)
                 /\ notas'[i].DescuentoPosible
                      = notas'[i].LibrasCalculadas * notas'[i].Descuento]_vars

\* C26: in every state reached through add_deposit_record,
\* edit_deposit_record, delete_deposit_record, the inline table save and the
\* import, every deposit's document kind is "Deposito" exactly when its
\* agency contains "Cajero", and "Transferencia" otherwise.
C26_DocumentKind ==
    \A i \in 1..Len(df) :
        /\ df[i].Documento \in {"Deposito", "Transferencia"}
        /\ df[i].Documento = "Deposito" <=> ContainsCajero(df[i].Agencia)

\* a step of the second session: the first session stays where it is
OtherSessionStep == UNCHANGED <<data, pc, call, flags, loaded, faults>> /\ other'.loaded

\* C27: two sessions each save their own copy by full replacement, so after
\* a save of the second session the table "proveedores" holds that session's
\* rows and nothing else: a row the first session added and saved, which the
\* second session's copy does not hold, is no longer in the table.
C27_LastSaveWins ==
    [][OtherSessionStep =>
        /\ db_data' = to_records(other'.data)
        /\ \A i \in 1..Len(data) :
              (~IsAnchor(data[i])
                 /\ \A j \in 1..Len(other'.data) : to_records(other'.data)[j] # to_records(data)[i])
              => \A j \in 1..Len(db_data') : db_data'[j] # to_records(data)[i]]_vars

\* the lost update: the first session has added a row and saved it, and has
\* not run since; the second session has saved; the row is not in the table
C27_Witness ==
    /\ pc \in {"tables", "end"}
    /\ call.op = "add_supplier_record"
    /\ outcome = "success"
    /\ other.loaded
    /\ Len(OpRows(data)) = 1
    /\ \A j \in 1..Len(db_data) : IsAnchor(db_data[j])

\* C28: save_dataframe is all-or-nothing: when it fails inside an add, edit
\* or delete function (it returns False), each table holds the rows it held
\* before the call; a failed insert leaves no table emptied.
C28_SaveAllOrNothing ==
    [][SaveFailedInHandler =>
        /\ db_data' = db_data
        /\ db_df' = db_df
        /\ db_notas' = db_notas]_vars

\* a step of add_supplier_record, edit_supplier_record or delete_record, or a
\* step in which recalculate_accumulated_balances runs in a loaded session
TransactionStep ==
    \/ pc = "ui" /\ call'.op \in {"add_supplier_record", "edit_supplier_record", "delete_record"}
    \/ pc = "end" /\ flags # {}
    \/ pc = "start" /\ loaded

\* C29: add_supplier_record, edit_supplier_record, delete_record and the
\* reconciliation leave the session's deposits and debit notes as they were;
\* a note keeps its stored eligible weight and possible discount when the
\* rows of its date change.
C29_TransactionFrame ==
    [][TransactionStep => (df' = df /\ notas' = notas)]_vars

\* no load and no save has failed, a row has been added, edited or deleted
\* and the dataset reconciled since, and a debit note's eligible weight is
\* not the converted weight of the rows of its date
C29_Witness ==
    /\ pc = "ui"
    /\ loaded
    /\ faults = MaxFaults
    /\ Len(df) > 0
    /\ \E i \in 1..Len(notas) :
          notas[i].LibrasCalculadas # ConvertedOn(data, notas[i].Fecha)

\* the columns of a transaction row that the user enters
SourceOf(r) ==
    <<r.N, r.Fecha, r.Proveedor, r.Cantidad, r.PesoSalida, r.PesoEntrada,
      r.TipoDocumento, r.Gavetas, r.PrecioUnitario>>

\* the dataset a reconciliation starts from: the session's, or the table's
\* in the first script run
ReconciliationInput == IF loaded THEN data ELSE load_dataframe(db_data, TRUE)

\* a step in which recalculate_accumulated_balances runs and no load fails
ReconciliationStep ==
    \/ pc = "start" /\ faults' = faults
    \/ pc = "end" /\ flags # {}

\* C30: reconciliation preserves the operational rows: its output has one
\* row for each operational row of its input and no other operational row,
\* each with the input row's id, date, counterparty, count, weights, document
\* type, container count and unit price, whatever deposits exist.
C30_OperationalRowsPreserved ==
    [][ReconciliationStep =>
        LET before == OpRows(ReconciliationInput)
            after == OpRows(data')
        IN /\ Len(after) = Len(before)
           /\ \E p \in Permutations(1..Len(before)) :
                 \A i \in 1..Len(before) : SourceOf(after[i]) = SourceOf(before[p[i]])]_vars

\* two rows reconciled with two deposits of the date and counterparty of one
\* of them: that row holds their total, the other row none, both are there
C30_Witness ==
    /\ pc = "ui"
    /\ faults = MaxFaults
    /\ Len(OpRows(data)) = 2
    /\ Len(df) = 2
    /\ df[1].Fecha = df[2].Fecha /\ df[1].Empresa = df[2].Empresa
    /\ \E i, j \in 1..Len(data) :
         /\ ~IsAnchor(data[i]) /\ ~IsAnchor(data[j])
         /\ data[i].MontoDeposito = df[1].Monto + df[2].Monto
         /\ data[j].MontoDeposito = 0
         /\ <<data[j].Fecha, data[j].Proveedor>> # <<df[1].Fecha, df[1].Empresa>>

====
